---- MODULE Spec2Model ----
(***************************************************************************)
(* The Bloc state containers of granite_crisp: the Bloc base class over a  *)
(* zustand vanilla store, MapBloc, the README's CounterBloc, and the       *)
(* union-state containers AirQualityBloc, Sf311Bloc and ForestLossBloc.    *)
(*                                                                         *)
(* JavaScript runs one handler at a time, so every action below is one     *)
(* whole synchronous run: a call of add(), subscribe(), dispose(), a timer *)
(* callback, or the continuation of a handler after its await.             *)
(*                                                                         *)
(* Longitudes and latitudes are integers in units of 0.01 degree.          *)
(***************************************************************************)
EXTENDS Integers, Sequences, FiniteSets, TLC

\* ------------------------------------------------------------- bounds
\* subscribe() calls made by client code in one run
MaxHandles == 2
\* connectToMap() calls in one run
MaxConnections == 2
\* connectToMap() calls in one run of the debounce specification
MaxConnectionsAQ == 1
\* handleLoad calls waiting for their fetch at one time
MaxInFlight == 1
\* events recorded in the history of the fold specification
MaxEvents == 4
\* calls of client code recorded in the history of the observer specification
MaxDispatch == 3
\* events recorded in the history of the forest loss specification
MaxLoads == 4

\* the Providers around one component
MaxDepth == 3
\* events dispatched in a run of the specification with fairness
MaxLive == 2

\* ------------------------------------------------------------- constants
\* AirQualityBloc.RELOAD_THRESHOLD, 0.05 degree in units of 0.01 degree
RELOAD_THRESHOLD == 5
\* AirQualityBloc.DEBOUNCE_MS
DEBOUNCE_MS == 500
\* the amounts of time the clock of the model advances by in one step
TickSteps == {250}

Blocs == {"map", "airQuality", "sf311", "forestLoss", "counter"}

VARIABLES
  state,            \* Bloc.store: the state value of each container
  isInitialObject,  \* whether that value is the very initial-state constant (Object.is)
  listeners,        \* Bloc.store: each container's listeners, in insertion order
  subscriptions,    \* Bloc.subscriptions: handles a container owns, as listener ids
  handles,          \* the handles subscribe() returned to client code
  connections,      \* connectToMap: the closures subscribed so far (a counter)
  unsubCalls,       \* how often dispose() invoked the handle of each connection
  disposed,         \* whether dispose() was called, and the listeners registered then
  transitions,      \* the transitions committed by the last step
  calls,            \* the listener calls made by the last step, in order
  debounceTimer,    \* AirQualityBloc.debounceTimer: a timer id, 0 for null
  lastLoadedCenter, \* AirQualityBloc.lastLoadedCenter, NoCenter for null
  timers,           \* the runtime's pending timeouts
  pending,          \* the handleLoad calls waiting at their await, oldest first, each
                    \* with whether it is the latest its container started
  persistentCache,  \* ForestLossBloc.persistentCache
  history,          \* the events dispatched so far (fold and observer specifications)
  observed,         \* the calls client listeners of the async containers got so far
  scope,            \* the Providers around the component being rendered, outermost first
  rendered,         \* the element the last Provider or MultiBlocProvider rendered came to
  retrieved,        \* what the last call of a useBloc hook came to
  initialLayers,    \* the members of the Set initialMapState.enabledLayers
  layersShared,     \* whether the enabledLayers of MapBloc's state is that very Set
  loadedOnce        \* whether a load of each container has completed so far

vars == <<state, isInitialObject, listeners, subscriptions, handles, connections,
          unsubCalls, disposed, transitions, calls, debounceTimer, lastLoadedCenter, timers,
          pending, persistentCache, history, observed, scope, rendered, retrieved,
          initialLayers, layersShared, loadedOnce>>

\* ------------------------------------------------------------- values
initialMapState ==
  [viewState |-> [longitude |-> -12242, latitude |-> 3777, zoom |-> 11,
                  pitch |-> 0, bearing |-> 0],
   enabledLayers |-> {"scatterplot"},
   isAnimating |-> FALSE]

initialCounterState == [count |-> 0]

initialAirQualityState == [status |-> "initial"]

initialSf311State == [status |-> "initial"]

initialForestLossState == [status |-> "initial"]

InitialState(b) ==
  CASE b = "map" -> initialMapState
    [] b = "counter" -> initialCounterState
    [] b = "airQuality" -> initialAirQualityState
    [] b = "sf311" -> initialSf311State
    [] b = "forestLoss" -> initialForestLossState

NoCenter == [longitude |-> 0, latitude |-> 0, none |-> TRUE]

Center(lon, lat) == [longitude |-> lon, latitude |-> lat, none |-> FALSE]

TestListener(n) == [kind |-> "test", id |-> n]

ConnListener(n) == [kind |-> "conn", id |-> n]

TestListeners == {TestListener(1), TestListener(2)}

\* ------------------------------------------------------------- helpers
Range(s) == {s[i] : i \in DOMAIN s}

Without(s, x) == SelectSeq(s, LAMBDA y : y # x)

Abs(n) == IF n < 0 THEN -n ELSE n

Max(a, b) == IF a > b THEN a ELSE b

\* ------------------------------------------------------------- zustand store
\* Object.assign with its arguments swapped: the fields of the old state win
MergeKeepingOld(s, partial) ==
  [k \in DOMAIN s \cup DOMAIN partial |-> IF k \in DOMAIN s THEN s[k] ELSE partial[k]]

\* Object.assign({}, state, partial): the fields of partial replace those of state
Merge(s, partial) ==
  [k \in DOMAIN s \cup DOMAIN partial |-> IF k \in DOMAIN partial THEN partial[k] ELSE s[k]]

\* store.setState(partial, replace) on a store holding s; same tells whether s is the
\* initial-state constant and sameArg whether the argument is that constant, so that
\* Object.is(nextState, state) is same /\ sameArg. The result tells whether a
\* transition was committed.
setState(s, same, partial, replace, sameArg) ==
  IF same /\ sameArg
  THEN [changed |-> FALSE, state |-> s, isInitialObject |-> same]
  ELSE [changed |-> TRUE,
        state |-> IF replace THEN partial ELSE Merge(s, partial),
        isInitialObject |-> replace /\ sameArg]

\* Bloc.emit(partial)
emit(b, partial, sameArg) == setState(state[b], isInitialObject[b], partial, FALSE, sameArg)

\* emitState without the replace flag: the new variant is merged into the old one
emitStateMerging(b, next, sameArg) ==
  setState(state[b], isInitialObject[b], next, FALSE, sameArg)

\* Bloc.emitState(next)
emitState(b, next, sameArg) == setState(state[b], isInitialObject[b], next, TRUE, sameArg)

\* the listeners run newest first
NotifyReversed(b, r) ==
  IF r.changed
  THEN [i \in 1..Len(listeners[b]) |->
          [bloc |-> b, listener |-> listeners[b][Len(listeners[b]) + 1 - i],
           state |-> r.state]]
  ELSE <<>>

\* listeners.forEach(listener => listener(state, previousState)) after a commit r
Notify(b, r) ==
  IF r.changed
  THEN [i \in 1..Len(listeners[b]) |->
          [bloc |-> b, listener |-> listeners[b][i], state |-> r.state]]
  ELSE <<>>

Committed(b, r) == IF r.changed THEN <<[bloc |-> b, state |-> r.state]>> ELSE <<>>

\* a subscribe that registers the listener once more each time it is called
subscribeAppending(ls, l) == Append(ls, l)

\* store.subscribe(listener): listeners is a Set, adding a member again changes nothing
subscribe(ls, l) == IF l \in Range(ls) THEN ls ELSE Append(ls, l)

\* a handle that drops the newest listener, whichever it is
unsubscribeNewest(ls, l) == IF ls = <<>> THEN ls ELSE SubSeq(ls, 1, Len(ls) - 1)

\* the handle subscribe() returns: listeners.delete(listener)
unsubscribe(ls, l) == Without(ls, l)

\* a getter that answers with the initial state once the container is disposed
getStateUntilDisposed(b) == IF disposed[b].done THEN InitialState(b) ELSE state[b]

\* get state(): this.store.getState()
getState(b) == state[b]

\* ------------------------------------------------------------- AirQualityBloc, viewport
\* a comparison that takes a move of exactly the threshold for a material one
shouldReloadInclusive(longitude, latitude) ==
  IF lastLoadedCenter.none THEN FALSE
  ELSE \/ Abs(longitude - lastLoadedCenter.longitude) >= RELOAD_THRESHOLD
       \/ Abs(latitude - lastLoadedCenter.latitude) >= RELOAD_THRESHOLD

shouldReload(longitude, latitude) ==
  IF lastLoadedCenter.none THEN FALSE
  ELSE LET deltaLon == Abs(longitude - lastLoadedCenter.longitude)
           deltaLat == Abs(latitude - lastLoadedCenter.latitude)
       IN deltaLon > RELOAD_THRESHOLD \/ deltaLat > RELOAD_THRESHOLD

\* a clearTimeout that cancels nothing
clearTimeoutLost(ts, id) == ts

\* clearTimeout(id): a pending timeout with that id is dropped, any other id is ignored
clearTimeout(ts, id) == {t \in ts : t.id # id}

\* setTimeout returns a handle that differs from every handle still pending or held
NewTimerId(ts, held) ==
  CHOOSE n \in 1..(Cardinality(ts) + 2) : n # held /\ \A t \in ts : t.id # n

\* a handler that schedules its timer without cancelling the pending one
handleViewportChangedStacking(aq, longitude, latitude) ==
  IF lastLoadedCenter.none \/ ~shouldReload(longitude, latitude)
  THEN aq
  ELSE LET id == NewTimerId(aq.timers, aq.debounceTimer)
       IN [debounceTimer |-> id,
           timers |-> aq.timers \cup {[id |-> id, remaining |-> DEBOUNCE_MS,
                                       center |-> Center(longitude, latitude)]}]

\* a handler that tests the move first and leaves a pending timer alone when the move
\* is not material
handleViewportChangedKeeping(aq, longitude, latitude) ==
  IF lastLoadedCenter.none \/ ~shouldReload(longitude, latitude)
  THEN aq
  ELSE LET cleared == IF aq.debounceTimer # 0
                      THEN clearTimeout(aq.timers, aq.debounceTimer)
                      ELSE aq.timers
           id == NewTimerId(cleared, aq.debounceTimer)
       IN [debounceTimer |-> id,
           timers |-> cleared \cup {[id |-> id, remaining |-> DEBOUNCE_MS,
                                     center |-> Center(longitude, latitude)]}]

\* handleViewportChanged on aq = [debounceTimer, timers]
handleViewportChanged(aq, longitude, latitude) ==
  LET cleared == IF aq.debounceTimer # 0
                 THEN clearTimeout(aq.timers, aq.debounceTimer)
                 ELSE aq.timers
  IN IF lastLoadedCenter.none \/ ~shouldReload(longitude, latitude)
     THEN [debounceTimer |-> aq.debounceTimer, timers |-> cleared]
     ELSE LET id == NewTimerId(cleared, aq.debounceTimer)
          IN [debounceTimer |-> id,
              timers |-> cleared \cup {[id |-> id, remaining |-> DEBOUNCE_MS,
                                        center |-> Center(longitude, latitude)]}]

\* the listener connectToMap subscribes: add({type: "viewportChanged", ...})
RECURSIVE RunListeners(_, _)
RunListeners(cs, aq) ==
  IF cs = <<>> THEN aq
  ELSE LET c == Head(cs)
       IN RunListeners(Tail(cs),
            IF c.listener.kind = "conn"
            THEN handleViewportChanged(aq, c.state.viewState.longitude,
                                       c.state.viewState.latitude)
            ELSE aq)

\* ------------------------------------------------------------- MapBloc
\* the centres client code moves the map to: the initial one, one that differs from it
\* by exactly the threshold, and two that differ by more
Positions ==
  {[longitude |-> -12242, latitude |-> 3777], [longitude |-> -12237, latitude |-> 3777],
   [longitude |-> -12236, latitude |-> 3777], [longitude |-> -12242, latitude |-> 3783]}

FlyTargets == {[longitude |-> -12236, latitude |-> 3777]}

Zooms == {8, 11}

Layers == {"scatterplot", "heatmap"}

ViewStates ==
  {[longitude |-> -12236, latitude |-> 3777, zoom |-> 8, pitch |-> 45, bearing |-> 90]}

MapEvents ==
  {[type |-> "viewStateChanged", viewState |-> v] : v \in ViewStates}
  \cup {[type |-> "setCenter", longitude |-> p.longitude, latitude |-> p.latitude] :
          p \in Positions}
  \cup {[type |-> "setZoom", zoom |-> z] : z \in Zooms}
  \cup {[type |-> "flyTo", longitude |-> p.longitude, latitude |-> p.latitude] :
          p \in FlyTargets}
  \cup {[type |-> "flyTo", longitude |-> p.longitude, latitude |-> p.latitude,
         zoom |-> 8] : p \in FlyTargets}
  \cup {[type |-> "toggleLayer", layerId |-> l] : l \in Layers}
  \cup {[type |-> "reset"]}

\* a viewStateChanged case that takes the view and leaves isAnimating alone
ViewStateChangedViewOnly(event) == [viewState |-> event.viewState]

\* the argument of emit in the viewStateChanged case
ViewStateChanged(event) == [viewState |-> event.viewState, isAnimating |-> FALSE]

\* a toggle that only ever switches a layer on
ToggleOn(layers, layerId) == layers \cup {layerId}

\* newLayers after the has / delete / add of the toggleLayer case
Toggle(layers, layerId) ==
  IF layerId \in layers THEN layers \ {layerId} ELSE layers \cup {layerId}

\* an argument built by spreading the initial state where the code spreads this.state:
\* the fields an event does not name fall back to their initial values
MapPartialOfInitial(s, event) ==
  CASE event.type = "viewStateChanged" -> ViewStateChanged(event)
    [] event.type = "setCenter" ->
         [viewState |-> [initialMapState.viewState EXCEPT !.longitude = event.longitude,
                                                          !.latitude = event.latitude]]
    [] event.type = "setZoom" ->
         [viewState |-> [initialMapState.viewState EXCEPT !.zoom = event.zoom]]
    [] event.type = "flyTo" ->
         [viewState |-> [initialMapState.viewState EXCEPT
                           !.longitude = event.longitude,
                           !.latitude = event.latitude,
                           !.zoom = IF "zoom" \in DOMAIN event THEN event.zoom ELSE @],
          isAnimating |-> TRUE]
    [] event.type = "toggleLayer" ->
         [enabledLayers |-> Toggle(initialMapState.enabledLayers, event.layerId)]
    [] event.type = "reset" -> [initialMapState EXCEPT !.enabledLayers = initialLayers]

\* the argument MapBloc.add(event) passes to emit
MapPartial(s, event) ==
  CASE event.type = "viewStateChanged" -> ViewStateChanged(event)
    [] event.type = "setCenter" ->
         [viewState |-> [s.viewState EXCEPT !.longitude = event.longitude,
                                            !.latitude = event.latitude]]
    [] event.type = "setZoom" ->
         [viewState |-> [s.viewState EXCEPT !.zoom = event.zoom]]
    [] event.type = "flyTo" ->
         [viewState |-> [s.viewState EXCEPT
                           !.longitude = event.longitude,
                           !.latitude = event.latitude,
                           !.zoom = IF "zoom" \in DOMAIN event THEN event.zoom ELSE @],
          isAnimating |-> TRUE]
    [] event.type = "toggleLayer" ->
         [enabledLayers |-> Toggle(s.enabledLayers, event.layerId)]
    [] event.type = "reset" -> [initialMapState EXCEPT !.enabledLayers = initialLayers]

\* const newLayers = this.state.enabledLayers: the Set of the state itself
SameSet(layers) == layers

\* new Set(this.state.enabledLayers): a Set of its own with the same members
NewSet(layers) == [members |-> layers.members, shared |-> FALSE]

\* MapBloc.add(event), with the listeners it runs before it returns
MapBlocAdd(event) ==
  LET r == emit("map", MapPartial(getState("map"), event), event.type = "reset")
      cs == Notify("map", r)
      aq == RunListeners(cs, [debounceTimer |-> debounceTimer, timers |-> timers])
      newLayers == NewSet([members |-> state["map"].enabledLayers, shared |-> layersShared])
  IN /\ state' = [state EXCEPT !["map"] = r.state]
     /\ layersShared' = CASE event.type = "toggleLayer" -> newLayers.shared
                           [] event.type = "reset" -> TRUE
                           [] OTHER -> layersShared
     /\ initialLayers' = IF event.type = "toggleLayer" /\ newLayers.shared
                         THEN r.state.enabledLayers
                         ELSE initialLayers
     /\ isInitialObject' = [isInitialObject EXCEPT !["map"] = r.isInitialObject]
     /\ transitions' = Committed("map", r)
     /\ calls' = cs
     /\ debounceTimer' = aq.debounceTimer
     /\ timers' = aq.timers
     /\ UNCHANGED <<listeners, subscriptions, handles, connections, unsubCalls, disposed,
                    lastLoadedCenter, pending, persistentCache, observed, scope, rendered,
                    retrieved, loadedOnce>>

MapAdd(event) == MapBlocAdd(event) /\ UNCHANGED history

\* ------------------------------------------------------------- CounterBloc (README)
CounterEvents == {[type |-> "increment"], [type |-> "decrement"], [type |-> "set", value |-> 5]}

\* the argument CounterBloc.add(event) passes to emit
CounterPartial(s, event) ==
  CASE event.type = "increment" -> [count |-> s.count + 1]
    [] event.type = "decrement" -> [count |-> s.count - 1]
    [] event.type = "set" -> [count |-> event.value]

\* CounterBloc.add(event)
CounterBlocAdd(event) ==
  LET r == emit("counter", CounterPartial(getState("counter"), event), FALSE)
  IN /\ state' = [state EXCEPT !["counter"] = r.state]
     /\ isInitialObject' = [isInitialObject EXCEPT !["counter"] = r.isInitialObject]
     /\ transitions' = Committed("counter", r)
     /\ calls' = Notify("counter", r)
     /\ UNCHANGED <<listeners, subscriptions, handles, connections, unsubCalls, disposed,
                    debounceTimer, lastLoadedCenter, timers, pending, persistentCache,
                    observed, scope, rendered, retrieved,
                 initialLayers, layersShared, loadedOnce>>

\* client code dispatches an event, and the model writes it down
Dispatch(b, event) ==
  /\ Len(history) < MaxEvents
  /\ history' = Append(history, [bloc |-> b, event |-> event])
  /\ CASE b = "map" -> MapBlocAdd(event)
       [] b = "counter" -> CounterBlocAdd(event)

\* ------------------------------------------------------------- Bloc: subscribe, dispose
\* client code calls bloc.subscribe(listener) and keeps the handle
BlocSubscribe(b, l) ==
  /\ Len(handles) < MaxHandles
  /\ listeners' = [listeners EXCEPT ![b] = subscribe(@, l)]
  /\ handles' = Append(handles, [bloc |-> b, listener |-> l, invoked |-> FALSE])
  /\ transitions' = <<>>
  /\ calls' = <<>>
  /\ UNCHANGED <<state, isInitialObject, subscriptions, connections, unsubCalls, disposed,
                 debounceTimer, lastLoadedCenter, timers, pending, persistentCache,
                 observed, scope, rendered, retrieved,
                 initialLayers, layersShared, loadedOnce>>

Subscribe(b, l) == BlocSubscribe(b, l) /\ UNCHANGED history

\* client code invokes the i-th handle it was given
Unsubscribe(i) ==
  /\ i \in DOMAIN handles
  /\ listeners' = [listeners EXCEPT ![handles[i].bloc] = unsubscribe(@, handles[i].listener)]
  /\ handles' = [handles EXCEPT ![i].invoked = TRUE]
  /\ transitions' = <<>>
  /\ calls' = <<>>
  /\ UNCHANGED <<state, isInitialObject, subscriptions, connections, unsubCalls, disposed,
                 debounceTimer, lastLoadedCenter, timers, pending, persistentCache,
                 history, observed, scope, rendered, retrieved,
                 initialLayers, layersShared, loadedOnce>>

\* a dispose that also drops every listener of the containers it visits
RunUnsubsClearing(hs, ls) == [b \in DOMAIN ls |-> <<>>]

\* a dispose that forgets the handles without running them
RunUnsubsSkipping(hs, ls) == ls

\* this.subscriptions.forEach(unsub => unsub()) over the handles hs
RECURSIVE RunUnsubs(_, _)
RunUnsubs(hs, ls) ==
  IF hs = <<>> THEN ls
  ELSE RunUnsubs(Tail(hs),
         [ls EXCEPT ![Head(hs).bloc] = unsubscribe(@, Head(hs).listener)])

\* a dispose that keeps the handles it has run
DisposeKeeping(hs) == hs

\* the handles Bloc.dispose() leaves in this.subscriptions
DisposeRemaining(hs) == <<>>

\* Bloc.dispose()
BlocDispose(b) ==
  /\ listeners' = RunUnsubs(subscriptions[b], listeners)
  /\ unsubCalls' = [n \in DOMAIN unsubCalls |->
                      unsubCalls[n] + Len(SelectSeq(subscriptions[b],
                                            LAMBDA h : h.listener = ConnListener(n)))]
  /\ subscriptions' = [subscriptions EXCEPT ![b] = DisposeRemaining(@)]
  /\ disposed' = IF disposed[b].done THEN disposed
                 ELSE [disposed EXCEPT ![b] = [done |-> TRUE,
                                               listeners |-> Range(listeners[b])]]
  /\ transitions' = <<>>
  /\ calls' = <<>>
  /\ UNCHANGED <<state, isInitialObject, handles, connections, lastLoadedCenter,
                 pending, persistentCache, history, observed, scope, rendered, retrieved,
          initialLayers, layersShared, loadedOnce>>

Dispose(b) == BlocDispose(b) /\ UNCHANGED <<debounceTimer, timers>>

\* ------------------------------------------------------------- listeners that call back
\* client code: a listener that dispatches set(5) to the container it listens to when
\* it is called with count 1, a listener that subscribes LateListener to the container
\* when it is called, and LateListener
ReenterListener == [kind |-> "reenter", id |-> 1]

AdderListener == [kind |-> "adder", id |-> 1]

LateListener == [kind |-> "late", id |-> 1]

ClientListeners == {TestListener(1), ReenterListener, AdderListener}

ReenterAt == 1

ReenterEvent == [type |-> "set", value |-> 5]

\* a forEach over the members the Set had when the round began
Snapshot(snapshot, current) == snapshot

\* Set.prototype.forEach visits the members the Set has when each visit is due: a member
\* added during the round is visited in that round
Live(snapshot, current) == current

RECURSIVE forEach(_, _, _, _)
RECURSIVE Call(_, _)
RECURSIVE setStateWithin(_, _)

\* the body of the listener l, called with the state of the store st
Call(l, st) ==
  CASE l.kind = "reenter" ->
         (IF st.state.count = ReenterAt
          THEN setStateWithin(st, CounterPartial(st.state, ReenterEvent))
          ELSE st)
    [] l.kind = "adder" -> [st EXCEPT !.listeners = subscribe(@, LateListener)]
    [] OTHER -> st

\* listeners.forEach(listener => listener(state, previousState)), from the i-th member
\* on: each listener is handed the state the store has when its call is made
forEach(st, snapshot, i, round) ==
  LET members == Live(snapshot, st.listeners)
  IN IF i > Len(members) THEN st
     ELSE forEach(Call(members[i],
                       [st EXCEPT !.calls = Append(@, [bloc |-> "counter",
                                                       listener |-> members[i],
                                                       state |-> st.state,
                                                       round |-> round])]),
                  snapshot, i + 1, round)

\* store.setState(partial) of a store whose listeners may call back: the state is
\* replaced by the merge, a new object, and the listeners are run before it returns
setStateWithin(st, partial) ==
  LET next == [st EXCEPT !.state = Merge(@, partial),
                         !.transitions = Append(@, Merge(st.state, partial))]
  IN forEach(next, next.listeners, 1, Len(next.transitions))

\* CounterBloc.add(event), with the listeners it runs before it returns and what they do
CounterBlocAddWithin(event) ==
  LET st == setStateWithin([state |-> getState("counter"),
                            listeners |-> listeners["counter"],
                            transitions |-> <<>>, calls |-> <<>>],
                           CounterPartial(getState("counter"), event))
  IN /\ state' = [state EXCEPT !["counter"] = st.state]
     /\ isInitialObject' = [isInitialObject EXCEPT !["counter"] = FALSE]
     /\ listeners' = [listeners EXCEPT !["counter"] = st.listeners]
     /\ transitions' = [i \in DOMAIN st.transitions |->
                          [bloc |-> "counter", state |-> st.transitions[i]]]
     /\ calls' = st.calls
     /\ UNCHANGED <<subscriptions, handles, connections, unsubCalls, disposed,
                    debounceTimer, lastLoadedCenter, timers, pending, persistentCache,
                    observed, scope, rendered, retrieved, initialLayers, layersShared,
                    loadedOnce>>

\* client code dispatches an event to a CounterBloc whose listeners may call back, and
\* the model writes it down
DispatchWithin(event) ==
  /\ Len(history) < MaxEvents
  /\ history' = Append(history, [bloc |-> "counter", event |-> event])
  /\ CounterBlocAddWithin(event)

\* ------------------------------------------------------------- async containers
\* what a fetch service answers with, and what it fails with: an Error carrying a
\* message, or a rejection that is no Error
AirQualityResponse ==
  [measurements |-> "measurements", lastUpdated |-> "2024-01-15T10:30:00Z",
   source |-> "Test Data"]

Failures == {[isError |-> TRUE, message |-> "boom"], [isError |-> FALSE, message |-> ""]}

\* a catch block that reports its own text whatever was thrown
ErrorMessageFallback(e, fallback) == fallback

\* e instanceof Error ? e.message : fallback
ErrorMessage(e, fallback) == IF e.isError THEN e.message ELSE fallback

\* a test that lets the guarded handler run in every status
StatusIsAny(s, status) == TRUE

\* a test that never lets the guarded handler run
StatusIsNever(s, status) == FALSE

\* this.state.status === status, the guard of the load and clearError cases of add()
StatusIs(s, status) == s.status = status

\* the store of container b commits r and runs its listeners
Commit(b, r) ==
  /\ state' = [state EXCEPT ![b] = r.state]
  /\ isInitialObject' = [isInitialObject EXCEPT ![b] = r.isInitialObject]
  /\ transitions' = Committed(b, r)
  /\ calls' = Notify(b, r)
  /\ observed' = observed \o SelectSeq(Notify(b, r), LAMBDA c : c.listener.kind = "test")
  /\ loadedOnce' = [loadedOnce EXCEPT ![b] = @ \/ (r.changed /\ r.state.status = "loaded")]
  /\ UNCHANGED <<scope, rendered, retrieved, initialLayers, layersShared>>

\* nothing is emitted
NoCommit ==
  /\ transitions' = <<>>
  /\ calls' = <<>>
  /\ UNCHANGED <<state, isInitialObject, observed, scope, rendered, retrieved,
                 initialLayers, layersShared, loadedOnce>>

\* the waiting handleLoad calls of container b are no longer its latest
Superseded(ps, b) ==
  [i \in DOMAIN ps |-> IF ps[i].bloc = b THEN [ps[i] EXCEPT !.latest = FALSE] ELSE ps[i]]

\* a handleLoad call that goes on without calling the service
AwaitingNothing(b, center, resolution) == pending' = pending

\* a handleLoad call that starts no fetch while one of its container is in flight
AwaitingOnce(b, center, resolution) ==
  pending' = IF \E i \in DOMAIN pending : pending[i].bloc = b THEN pending
             ELSE Append(pending, [bloc |-> b, center |-> center, resolution |-> resolution,
                                   latest |-> TRUE])

\* a handleLoad call reaches its await: the fetch is in flight, and it is the latest one
\* its container started
Awaiting(b, center, resolution) ==
  pending' = Append(Superseded(pending, b),
                    [bloc |-> b, center |-> center, resolution |-> resolution,
                     latest |-> TRUE])

\* the i-th waiting handleLoad call resumes
Resumed(i) == pending' = SubSeq(pending, 1, i - 1) \o SubSeq(pending, i + 1, Len(pending))

\* ------------------------------------------------------------- AirQualityBloc
AirQualityEvents ==
  {[type |-> "load"], [type |-> "refresh"], [type |-> "clearError"]}
  \cup {[type |-> "viewportChanged", longitude |-> p.longitude, latitude |-> p.latitude] :
          p \in Positions}

\* AirQualityBloc.connectToMap(mapBloc)
ConnectToMap(max) ==
  /\ connections < max
  /\ connections' = connections + 1
  /\ lastLoadedCenter' = Center(state["map"].viewState.longitude,
                                state["map"].viewState.latitude)
  /\ listeners' = [listeners EXCEPT !["map"] = subscribe(@, ConnListener(connections + 1))]
  /\ subscriptions' = [subscriptions EXCEPT !["airQuality"] =
                         Append(@, [bloc |-> "map",
                                    listener |-> ConnListener(connections + 1)])]
  /\ NoCommit
  /\ UNCHANGED <<handles, unsubCalls, disposed, debounceTimer, timers, pending,
                 persistentCache, history>>

\* a handleLoad that reaches its await without having emitted loading
AirQualityHandleLoadSilent(center) ==
  /\ NoCommit
  /\ Awaiting("airQuality", center, 0)

\* AirQualityBloc.handleLoad(center) up to its await
AirQualityHandleLoad(center) ==
  /\ Commit("airQuality", emitState("airQuality", [status |-> "loading"], FALSE))
  /\ Awaiting("airQuality", center, 0)

\* AirQualityBloc.add(event)
AirQualityBlocAdd(event) ==
  /\ CASE event.type = "load" ->
            /\ IF StatusIs(state["airQuality"], "initial")
               THEN AirQualityHandleLoad(NoCenter)
               ELSE NoCommit /\ UNCHANGED pending
            /\ UNCHANGED <<debounceTimer, timers>>
       [] event.type = "refresh" ->
            /\ AirQualityHandleLoad(NoCenter)
            /\ UNCHANGED <<debounceTimer, timers>>
       [] event.type = "clearError" ->
            /\ IF StatusIs(state["airQuality"], "error")
               THEN Commit("airQuality", emitState("airQuality", initialAirQualityState, TRUE))
               ELSE NoCommit
            /\ UNCHANGED <<debounceTimer, timers, pending>>
       [] event.type = "viewportChanged" ->
            LET aq == handleViewportChanged(
                        [debounceTimer |-> debounceTimer, timers |-> timers],
                        event.longitude, event.latitude)
            IN /\ debounceTimer' = aq.debounceTimer
               /\ timers' = aq.timers
               /\ NoCommit
               /\ UNCHANGED pending
  /\ UNCHANGED <<listeners, subscriptions, handles, connections, unsubCalls, disposed,
                 lastLoadedCenter, persistentCache>>

\* add(event) while fewer than MaxInFlight fetches are in flight
AirQualityAdd(event) ==
  /\ AirQualityBlocAdd(event)
  /\ Len(pending') <= MaxInFlight
  /\ UNCHANGED history

\* the callback of setTimeout in handleViewportChanged runs: handleLoad(center)
TimerFire(t) ==
  /\ t \in timers
  /\ t.remaining = 0
  /\ Len(pending) < MaxInFlight
  /\ timers' = timers \ {t}
  /\ AirQualityHandleLoad(t.center)
  /\ UNCHANGED <<listeners, subscriptions, handles, connections, unsubCalls, disposed,
                 debounceTimer, lastLoadedCenter, persistentCache, history>>

\* time passes
Tick(d) ==
  /\ \E t \in timers : t.remaining > 0
  /\ timers' = {[t EXCEPT !.remaining = Max(0, @ - d)] : t \in timers}
  /\ NoCommit
  /\ UNCHANGED <<listeners, subscriptions, handles, connections, unsubCalls, disposed,
                 debounceTimer, lastLoadedCenter, pending, persistentCache, history>>

\* a handleLoad that never records where it loaded
TrackCenterNever(center) == lastLoadedCenter

\* if (center) { this.lastLoadedCenter = center }
TrackCenter(center) == IF center.none THEN lastLoadedCenter ELSE center

\* a catch block that records the centre as the try block does
TrackCenterAlways(center) == TrackCenter(center)

\* the catch block of handleLoad assigns nothing to this.lastLoadedCenter
TrackCenterCaught(center) == lastLoadedCenter

\* fetchMeasurements() resolves: handleLoad continues after its await
AirQualityLoaded(i) ==
  /\ i \in DOMAIN pending
  /\ pending[i].bloc = "airQuality"
  /\ Resumed(i)
  /\ lastLoadedCenter' = TrackCenter(pending[i].center)
  /\ Commit("airQuality",
            emitState("airQuality",
                      [status |-> "loaded", data |-> AirQualityResponse.measurements,
                       lastUpdated |-> AirQualityResponse.lastUpdated,
                       source |-> AirQualityResponse.source], FALSE))
  /\ UNCHANGED <<listeners, subscriptions, handles, connections, unsubCalls, disposed,
                 debounceTimer, timers, persistentCache, history>>

\* fetchMeasurements() rejects with e: the catch block of handleLoad
AirQualityFailed(i, e) ==
  /\ i \in DOMAIN pending
  /\ pending[i].bloc = "airQuality"
  /\ Resumed(i)
  /\ lastLoadedCenter' = TrackCenterCaught(pending[i].center)
  /\ Commit("airQuality",
            emitState("airQuality",
                      [status |-> "error",
                       message |-> ErrorMessage(e, "Unknown error occurred")], FALSE))
  /\ UNCHANGED <<listeners, subscriptions, handles, connections, unsubCalls, disposed,
                 debounceTimer, timers, persistentCache, history>>

\* AirQualityBloc.dispose()
AirQualityDispose ==
  /\ timers' = IF debounceTimer # 0 THEN clearTimeout(timers, debounceTimer) ELSE timers
  /\ debounceTimer' = 0
  /\ BlocDispose("airQuality")

\* ------------------------------------------------------------- Sf311Bloc
Sf311Events == {[type |-> "load"], [type |-> "refresh"], [type |-> "clearError"]}

Sf311Response == [requests |-> "requests", count |-> 3, source |-> "Test Data"]

\* Sf311Bloc.handleLoad() up to its await
Sf311HandleLoad ==
  /\ Commit("sf311", emitState("sf311", [status |-> "loading"], FALSE))
  /\ Awaiting("sf311", NoCenter, 0)

\* Sf311Bloc.add(event)
Sf311BlocAdd(event) ==
  /\ CASE event.type = "load" ->
            IF StatusIs(state["sf311"], "initial")
            THEN Sf311HandleLoad
            ELSE NoCommit /\ UNCHANGED pending
       [] event.type = "refresh" -> Sf311HandleLoad
       [] event.type = "clearError" ->
            /\ IF StatusIs(state["sf311"], "error")
               THEN Commit("sf311", emitState("sf311", initialSf311State, TRUE))
               ELSE NoCommit
            /\ UNCHANGED pending
  /\ UNCHANGED <<listeners, subscriptions, handles, connections, unsubCalls, disposed,
                 debounceTimer, lastLoadedCenter, timers, persistentCache>>

\* add(event) while fewer than MaxInFlight fetches are in flight
Sf311Add(event) ==
  /\ Sf311BlocAdd(event)
  /\ Len(pending') <= MaxInFlight
  /\ UNCHANGED history

\* fetchRequests() resolves: handleLoad continues after its await
Sf311Loaded(i) ==
  /\ i \in DOMAIN pending
  /\ pending[i].bloc = "sf311"
  /\ Resumed(i)
  /\ Commit("sf311",
            emitState("sf311",
                      [status |-> "loaded", data |-> Sf311Response.requests,
                       count |-> Sf311Response.count, source |-> Sf311Response.source],
                      FALSE))
  /\ UNCHANGED <<listeners, subscriptions, handles, connections, unsubCalls, disposed,
                 debounceTimer, lastLoadedCenter, timers, persistentCache, history>>

\* fetchRequests() rejects with e: the catch block of handleLoad
Sf311Failed(i, e) ==
  /\ i \in DOMAIN pending
  /\ pending[i].bloc = "sf311"
  /\ Resumed(i)
  /\ Commit("sf311",
            emitState("sf311",
                      [status |-> "error",
                       message |-> ErrorMessage(e, "Failed to load 311 data")], FALSE))
  /\ UNCHANGED <<listeners, subscriptions, handles, connections, unsubCalls, disposed,
                 debounceTimer, lastLoadedCenter, timers, persistentCache, history>>

\* ------------------------------------------------------------- ForestLossBloc
VALID_RESOLUTIONS == {4, 5, 6, 7}

\* the resolutions client code asks for: two valid ones and one that is not
Resolutions == {3, 5, 6}

\* a year filter bound of 0 stands for null
YearFilters == {[minYear |-> 15, maxYear |-> 17], [minYear |-> 18, maxYear |-> 0]}

ForestLossEvents ==
  {[type |-> "load", resolution |-> r] : r \in Resolutions}
  \cup {[type |-> "setYearFilter", minYear |-> f.minYear, maxYear |-> f.maxYear] :
          f \in YearFilters}
  \cup {[type |-> "clearYearFilter"], [type |-> "clearError"]}

\* what fetchForestLoss(resolution) resolves with
ForestLossResponse(resolution) ==
  [cells |-> <<"cells", resolution>>,
   bounds |-> [north |-> 50, south |-> 40, east |-> -110, west |-> -130],
   source |-> "Test Data"]

\* what fetchForestLoss(resolution) may resolve with: the data set as it is, or as it is
\* after the server has published a revision of it
ForestLossResponses(resolution) ==
  {ForestLossResponse(resolution),
   [ForestLossResponse(resolution) EXCEPT !.cells = <<"revised cells", resolution>>]}

\* `Invalid resolution: ${resolution}. Must be one of ${VALID_RESOLUTIONS.join(", ")}`
InvalidResolutionMessage(resolution) ==
  CASE resolution = 3 -> "Invalid resolution: 3. Must be one of 4, 5, 6, 7"
    [] resolution = 8 -> "Invalid resolution: 8. Must be one of 4, 5, 6, 7"
    [] OTHER -> "Invalid resolution"

\* a validation that lets every resolution through
IsValidResolutionAny(resolution) == TRUE

\* VALID_RESOLUTIONS.includes(resolution)
IsValidResolution(resolution) == resolution \in VALID_RESOLUTIONS

\* a cache that never has the cells
CachedNever(cache, resolution) == FALSE

\* const cached = this.persistentCache.get(resolution); if (cached)
Cached(cache, resolution) == resolution \in DOMAIN cache

\* a cache that holds the cells written last and nothing else
CacheSetOnly(cache, resolution, cells) == [r \in {resolution} |-> cells]

\* this.persistentCache.set(resolution, cells)
CacheSet(cache, resolution, cells) ==
  [r \in DOMAIN cache \cup {resolution} |-> IF r = resolution THEN cells ELSE cache[r]]

\* whether handleLoad(resolution) gets as far as calling the service
ForestLossFetches(resolution) ==
  /\ IsValidResolution(resolution)
  /\ ~(state["forestLoss"].status = "loading" /\ state["forestLoss"].resolution = resolution)
  /\ ~Cached(persistentCache, resolution)

\* ForestLossBloc.handleLoad(resolution) up to its await or its return; the cache field
\* of a loaded state is a reference to the one Map this.persistentCache
ForestLossHandleLoad(resolution) ==
  LET s == state["forestLoss"]
  IN IF ~IsValidResolution(resolution)
     THEN /\ Commit("forestLoss",
                    emitState("forestLoss",
                              [status |-> "error",
                               message |-> InvalidResolutionMessage(resolution),
                               resolution |-> resolution], FALSE))
          /\ UNCHANGED pending
     ELSE IF s.status = "loading" /\ s.resolution = resolution
     THEN NoCommit /\ UNCHANGED pending
     ELSE IF Cached(persistentCache, resolution)
     THEN /\ Commit("forestLoss",
                    emitState("forestLoss",
                              [status |-> "loaded",
                               resolution |-> resolution,
                               data |-> persistentCache[resolution],
                               bounds |-> IF s.status = "loaded" THEN s.bounds
                                          ELSE [north |-> 49, south |-> 42,
                                                east |-> -117, west |-> -125],
                               source |-> IF s.status = "loaded" THEN s.source
                                          ELSE "Hansen GFC 2023 v1.11",
                               yearFilter |-> IF s.status = "loaded" THEN s.yearFilter
                                              ELSE [minYear |-> 0, maxYear |-> 0],
                               cache |-> "this.persistentCache"], FALSE))
          /\ UNCHANGED pending
     ELSE /\ Commit("forestLoss",
                    emitState("forestLoss",
                              [status |-> "loading", resolution |-> resolution], FALSE))
          /\ Awaiting("forestLoss", NoCenter, resolution)

\* a new state that takes the year filter and forgets the cells
WithYearFilterOnly(s, minYear, maxYear) ==
  [s EXCEPT !.yearFilter = [minYear |-> minYear, maxYear |-> maxYear], !.data = <<>>]

\* { ...this.state, yearFilter: { minYear, maxYear } }
WithYearFilter(s, minYear, maxYear) ==
  [s EXCEPT !.yearFilter = [minYear |-> minYear, maxYear |-> maxYear]]

\* ForestLossBloc.add(event)
ForestLossBlocAdd(event) ==
  /\ CASE event.type = "load" -> ForestLossHandleLoad(event.resolution)
       [] event.type = "setYearFilter" ->
            /\ IF state["forestLoss"].status = "loaded"
               THEN Commit("forestLoss",
                           emitState("forestLoss",
                                     WithYearFilter(state["forestLoss"], event.minYear,
                                                    event.maxYear),
                                     FALSE))
               ELSE NoCommit
            /\ UNCHANGED pending
       [] event.type = "clearYearFilter" ->
            /\ IF state["forestLoss"].status = "loaded"
               THEN Commit("forestLoss",
                           emitState("forestLoss",
                                     WithYearFilter(state["forestLoss"], 0, 0), FALSE))
               ELSE NoCommit
            /\ UNCHANGED pending
       [] event.type = "clearError" ->
            /\ IF StatusIs(state["forestLoss"], "error")
               THEN Commit("forestLoss",
                           emitState("forestLoss", initialForestLossState, TRUE))
               ELSE NoCommit
            /\ UNCHANGED pending
  /\ UNCHANGED <<listeners, subscriptions, handles, connections, unsubCalls, disposed,
                 debounceTimer, lastLoadedCenter, timers, persistentCache>>

\* add(event) while fewer than MaxInFlight fetches are in flight
ForestLossAdd(event) ==
  /\ ForestLossBlocAdd(event)
  /\ Len(pending') <= MaxInFlight
  /\ UNCHANGED history

\* fetchForestLoss(resolution) resolves with response: handleLoad continues after its
\* await
ForestLossResolved(i, response) ==
  /\ i \in DOMAIN pending
  /\ pending[i].bloc = "forestLoss"
  /\ Resumed(i)
  /\ persistentCache' = CacheSet(persistentCache, pending[i].resolution, response.cells)
  /\ Commit("forestLoss",
            emitState("forestLoss",
                      [status |-> "loaded",
                       resolution |-> pending[i].resolution,
                       data |-> response.cells,
                       bounds |-> response.bounds,
                       source |-> response.source,
                       yearFilter |-> [minYear |-> 0, maxYear |-> 0],
                       cache |-> "this.persistentCache"], FALSE))
  /\ UNCHANGED <<listeners, subscriptions, handles, connections, unsubCalls, disposed,
                 debounceTimer, lastLoadedCenter, timers, history>>

\* fetchForestLoss(resolution) resolves with the data set as it is
ForestLossLoaded(i) ==
  /\ i \in DOMAIN pending
  /\ ForestLossResolved(i, ForestLossResponse(pending[i].resolution))

\* fetchForestLoss(resolution) rejects with e: the catch block of handleLoad
ForestLossFailed(i, e) ==
  /\ i \in DOMAIN pending
  /\ pending[i].bloc = "forestLoss"
  /\ Resumed(i)
  /\ Commit("forestLoss",
            emitState("forestLoss",
                      [status |-> "error",
                       message |-> ErrorMessage(e, "Failed to load forest loss data"),
                       resolution |-> pending[i].resolution], FALSE))
  /\ UNCHANGED <<listeners, subscriptions, handles, connections, unsubCalls, disposed,
                 debounceTimer, lastLoadedCenter, timers, persistentCache, history>>

\* ------------------------------------------------------------- client code, observed
AsyncBlocs == {"airQuality", "sf311", "forestLoss"}

\* client code subscribes a listener to container b, and the model writes it down
Listen(b) ==
  /\ Len(history) < MaxDispatch
  /\ history' = Append(history, [bloc |-> b, event |-> [type |-> "subscribe"]])
  /\ BlocSubscribe(b, TestListener(1))

\* client code dispatches an event to an async container, and the model writes it down
DispatchAsync(b, event) ==
  /\ Len(history) < MaxDispatch
  /\ history' = Append(history, [bloc |-> b, event |-> event])
  /\ CASE b = "airQuality" -> AirQualityBlocAdd(event)
       [] b = "sf311" -> Sf311BlocAdd(event)
       [] b = "forestLoss" -> ForestLossBlocAdd(event)

\* client code dispatches an event to an async container in a run that is followed to
\* its end
DispatchLive(b, event) ==
  /\ Len(history) < MaxLive
  /\ history' = Append(history, [bloc |-> b, event |-> event])
  /\ CASE b = "airQuality" -> AirQualityBlocAdd(event)
       [] b = "sf311" -> Sf311BlocAdd(event)
       [] b = "forestLoss" -> ForestLossBlocAdd(event)

\* client code dispatches an event to the ForestLossBloc, and the model writes it down
ForestLossDispatch(event) ==
  /\ Len(history) < MaxLoads
  /\ history' = Append(history, [bloc |-> "forestLoss", event |-> event])
  /\ ForestLossBlocAdd(event)

\* ------------------------------------------------------------- BlocProvider
\* the names createBlocProvider is called with, and the container instances handed to
\* the Providers
DisplayNames == {"MapBloc", "AirQualityBloc"}

Instances == {"bloc1", "bloc2"}

\* createContext(undefined): the value a context has outside every Provider of it
undefined == "undefined"

\* the entries of the blocs array of a MultiBlocProvider
BlocProviderEntry == [Provider : DisplayNames, bloc : Instances]

Entries(n) == UNION {[1..k -> BlocProviderEntry] : k \in 0..n}

\* <Provider bloc={bloc}>{children}</Provider> as <<Provider, bloc, children>>; the
\* children the caller passed are the empty tuple
Element(Provider, bloc, children) == <<Provider, bloc, children>>

NoChildren == <<>>

RECURSIVE reduceRight(_, _, _)
\* blocs.reduceRight with the callback of MultiBlocProvider: from the last entry to the
\* first
reduceRight(blocs, i, acc) ==
  IF i = 0 THEN acc
  ELSE reduceRight(blocs, i - 1, Element(blocs[i].Provider, blocs[i].bloc, acc))

\* a MultiBlocProvider that puts its last entry outermost
MultiBlocProviderReversed(blocs, children) ==
  reduceRight([i \in 1..Len(blocs) |-> blocs[Len(blocs) + 1 - i]], Len(blocs), children)

\* MultiBlocProvider({ blocs, children })
MultiBlocProvider(blocs, children) == reduceRight(blocs, Len(blocs), children)

RECURSIVE Render(_, _)
\* React renders the element below the Providers of sc: each Provider component puts
\* <BlocContext.Provider value={bloc}> around its children; the result is the Providers
\* around the children the caller passed
Render(element, sc) ==
  IF element = NoChildren THEN sc
  ELSE Render(element[3], Append(sc, [Provider |-> element[1], bloc |-> element[2]]))

\* a lookup that answers with the outermost Provider of the context
useContextOutermost(displayName, sc) ==
  LET around == {i \in DOMAIN sc : sc[i].Provider = displayName}
  IN IF around = {} THEN undefined
     ELSE sc[CHOOSE i \in around : \A j \in around : i <= j].bloc

\* useContext(BlocContext): the value of the nearest Provider of the context around the
\* caller, the default outside every one
useContext(displayName, sc) ==
  LET around == {i \in DOMAIN sc : sc[i].Provider = displayName}
  IN IF around = {} THEN undefined
     ELSE sc[CHOOSE i \in around : \A j \in around : j <= i].bloc

\* a hook that hands out whatever the context holds
useBlocUnchecked(displayName, sc) ==
  [hook |-> displayName, threw |-> FALSE, message |-> <<>>,
   bloc |-> useContext(displayName, sc)]

\* useBloc() of the Providers createBlocProvider(displayName) makes
useBloc(displayName, sc) ==
  LET bloc == useContext(displayName, sc)
  IN IF bloc = undefined
     THEN [hook |-> displayName, threw |-> TRUE,
           message |-> <<"use", displayName, " must be used within a ", displayName,
                         "Provider">>,
           bloc |-> "none"]
     ELSE [hook |-> displayName, threw |-> FALSE, message |-> <<>>, bloc |-> bloc]

NoRetrieval == [hook |-> "none", threw |-> FALSE, message |-> <<>>, bloc |-> "none"]

blocVars == <<initialLayers, layersShared, loadedOnce, state, isInitialObject, listeners,
              subscriptions, handles, connections,
              unsubCalls, disposed, transitions, calls, debounceTimer, lastLoadedCenter,
              timers, pending, persistentCache, history, observed>>

\* the children handed to a Provider or a MultiBlocProvider: a plain component, or one
\* more Provider around it
Children ==
  {NoChildren} \cup {Element(d, b, NoChildren) : d \in DisplayNames, b \in Instances}

RECURSIVE Depth(_)
Depth(element) == IF element = NoChildren THEN 0 ELSE 1 + Depth(element[3])

NoRender == [by |-> "none", blocs |-> <<>>, children |-> NoChildren, element |-> NoChildren]

\* a <Provider bloc={bloc}>{children}</Provider> is rendered below the Providers rendered
\* so far
RenderProvider(displayName, bloc, children) ==
  LET element == Element(displayName, bloc, children)
  IN /\ Len(scope) + Depth(element) <= MaxDepth
     /\ rendered' = [by |-> "Provider",
                     blocs |-> <<[Provider |-> displayName, bloc |-> bloc]>>,
                     children |-> children, element |-> element]
     /\ scope' = Render(element, scope)
     /\ UNCHANGED <<retrieved, blocVars>>

\* a <MultiBlocProvider blocs={blocs}>{children}</MultiBlocProvider> is rendered below
\* the Providers rendered so far
RenderMultiBlocProvider(blocs, children) ==
  LET element == MultiBlocProvider(blocs, children)
  IN /\ Len(scope) + Len(blocs) + Depth(children) <= MaxDepth
     /\ rendered' = [by |-> "MultiBlocProvider", blocs |-> blocs, children |-> children,
                     element |-> element]
     /\ scope' = Render(element, scope)
     /\ UNCHANGED <<retrieved, blocVars>>

\* the component rendered below the Providers calls the hook of displayName
CallUseBloc(displayName) ==
  /\ retrieved' = useBloc(displayName, scope)
  /\ UNCHANGED <<scope, rendered, blocVars>>

\* the innermost Provider is unmounted, with all below it
Unmount ==
  /\ scope # <<>>
  /\ scope' = SubSeq(scope, 1, Len(scope) - 1)
  /\ rendered' = NoRender
  /\ retrieved' = NoRetrieval
  /\ UNCHANGED blocVars

\* ------------------------------------------------------------- specifications
Init ==
  /\ state = [b \in Blocs |-> InitialState(b)]
  /\ isInitialObject = [b \in Blocs |-> TRUE]
  /\ listeners = [b \in Blocs |-> <<>>]
  /\ subscriptions = [b \in Blocs |-> <<>>]
  /\ handles = <<>>
  /\ connections = 0
  /\ unsubCalls = [n \in 1..Max(MaxConnections, MaxConnectionsAQ) |-> 0]
  /\ disposed = [b \in Blocs |-> [done |-> FALSE, listeners |-> {}]]
  /\ transitions = <<>>
  /\ calls = <<>>
  /\ debounceTimer = 0
  /\ lastLoadedCenter = NoCenter
  /\ timers = {}
  /\ pending = <<>>
  /\ persistentCache = [r \in {} |-> <<>>]
  /\ history = <<>>
  /\ observed = <<>>
  /\ scope = <<>>
  /\ rendered = NoRender
  /\ retrieved = NoRetrieval
  /\ initialLayers = initialMapState.enabledLayers
  /\ layersShared = TRUE
  /\ loadedOnce = [b \in Blocs |-> FALSE]

\* MapBloc with client listeners
Next ==
  \/ \E e \in MapEvents : MapAdd(e)
  \/ \E l \in TestListeners : Subscribe("map", l)
  \/ \E i \in 1..MaxHandles : Unsubscribe(i)
  \/ Dispose("map")

Spec == Init /\ [][Next]_vars

\* MapBloc and a connected AirQualityBloc
MapEventsAQ == {e \in MapEvents : e.type = "setCenter"}

NextAQ ==
  \/ \E e \in MapEventsAQ : MapAdd(e)
  \/ ConnectToMap(MaxConnectionsAQ)
  \/ \E e \in AirQualityEvents : AirQualityAdd(e)
  \/ \E t \in timers : TimerFire(t)
  \/ \E d \in TickSteps : Tick(d)
  \/ \E i \in DOMAIN pending : AirQualityLoaded(i)
  \/ \E i \in DOMAIN pending : AirQualityFailed(i, [isError |-> TRUE, message |-> "boom"])
  \/ AirQualityDispose

SpecAQ == Init /\ [][NextAQ]_vars

\* MapBloc with client listeners and an AirQualityBloc connected to it several times
NextConnect ==
  \/ \E e \in MapEventsAQ : MapAdd(e)
  \/ \E l \in TestListeners : Subscribe("map", l)
  \/ ConnectToMap(MaxConnections)
  \/ \E d \in TickSteps : Tick(d)
  \/ AirQualityDispose

SpecConnect == Init /\ [][NextConnect]_vars

\* an AirQualityBloc connected to the map several times and given viewportChanged
\* events directly as well
ViewportEvents == {e \in AirQualityEvents : e.type = "viewportChanged"}

NextTimers ==
  \/ \E e \in MapEventsAQ : MapAdd(e)
  \/ ConnectToMap(MaxConnections)
  \/ \E e \in ViewportEvents : AirQualityAdd(e)
  \/ \E t \in timers : TimerFire(t)
  \/ \E d \in TickSteps : Tick(d)
  \/ \E i \in DOMAIN pending : AirQualityLoaded(i)
  \/ AirQualityDispose

SpecTimers == Init /\ [][NextTimers]_vars

\* an AirQualityBloc whose every fetch is a reload started by the debounce timer
NextRetry ==
  \/ \E e \in MapEventsAQ : MapAdd(e)
  \/ ConnectToMap(MaxConnectionsAQ)
  \/ \E t \in timers : TimerFire(t)
  \/ \E d \in TickSteps : Tick(d)
  \/ \E i \in DOMAIN pending : AirQualityLoaded(i)
  \/ \E i \in DOMAIN pending, e \in Failures : AirQualityFailed(i, e)

SpecRetry == Init /\ [][NextRetry]_vars

\* the synchronous containers, with the events dispatched to them written down
MapEventsFold ==
  {e \in MapEvents : e.type = "setCenter" => e.longitude = -12236}

NextFold ==
  \/ \E e \in MapEventsFold : Dispatch("map", e)
  \/ \E e \in CounterEvents : Dispatch("counter", e)

SpecFold == Init /\ [][NextFold]_vars

\* the three union-state containers, none of them connected
AirQualityEventsPlain == {e \in AirQualityEvents : e.type # "viewportChanged"}

NextUnion ==
  \/ \E e \in AirQualityEventsPlain : AirQualityAdd(e)
  \/ \E i \in DOMAIN pending : AirQualityLoaded(i)
  \/ \E i \in DOMAIN pending, e \in Failures : AirQualityFailed(i, e)
  \/ \E e \in Sf311Events : Sf311Add(e)
  \/ \E i \in DOMAIN pending : Sf311Loaded(i)
  \/ \E i \in DOMAIN pending, e \in Failures : Sf311Failed(i, e)
  \/ \E e \in ForestLossEvents : ForestLossAdd(e)
  \/ \E i \in DOMAIN pending : ForestLossLoaded(i)
  \/ \E i \in DOMAIN pending, e \in Failures : ForestLossFailed(i, e)

SpecUnion == Init /\ [][NextUnion]_vars

\* the async containers with a client listener; the services fail with an Error
Errors == {e \in Failures : e.isError}

NextObserve ==
  \/ \E b \in AsyncBlocs : Listen(b)
  \/ \E e \in AirQualityEventsPlain : DispatchAsync("airQuality", e)
  \/ \E e \in Sf311Events : DispatchAsync("sf311", e)
  \/ \E e \in ForestLossEvents : DispatchAsync("forestLoss", e)
  \/ \E i \in DOMAIN pending : AirQualityLoaded(i)
  \/ \E i \in DOMAIN pending, e \in Errors : AirQualityFailed(i, e)
  \/ \E i \in DOMAIN pending : Sf311Loaded(i)
  \/ \E i \in DOMAIN pending, e \in Errors : Sf311Failed(i, e)
  \/ \E i \in DOMAIN pending : ForestLossLoaded(i)
  \/ \E i \in DOMAIN pending, e \in Errors : ForestLossFailed(i, e)

SpecObserve == Init /\ [][NextObserve]_vars

\* a fetch in flight settles: it resolves, or it rejects
Settles ==
  \E i \in DOMAIN pending :
    \/ AirQualityLoaded(i) \/ Sf311Loaded(i) \/ ForestLossLoaded(i)
    \/ \E e \in Errors : AirQualityFailed(i, e) \/ Sf311Failed(i, e) \/ ForestLossFailed(i, e)

\* the async containers without listeners, every fetch of which settles in the end
NextLive ==
  \/ \E e \in AirQualityEventsPlain : DispatchLive("airQuality", e)
  \/ \E e \in Sf311Events : DispatchLive("sf311", e)
  \/ \E e \in ForestLossEvents : DispatchLive("forestLoss", e)
  \/ \E i \in DOMAIN pending : AirQualityLoaded(i)
  \/ \E i \in DOMAIN pending, e \in Errors : AirQualityFailed(i, e)
  \/ \E i \in DOMAIN pending : Sf311Loaded(i)
  \/ \E i \in DOMAIN pending, e \in Errors : Sf311Failed(i, e)
  \/ \E i \in DOMAIN pending : ForestLossLoaded(i)
  \/ \E i \in DOMAIN pending, e \in Errors : ForestLossFailed(i, e)

SpecLive == Init /\ [][NextLive]_vars /\ WF_vars(Settles)

\* the ForestLossBloc alone, with one more resolution that is not valid
ForestLossEventsAll == ForestLossEvents \cup {[type |-> "load", resolution |-> 8]}

NextForest ==
  \/ \E e \in ForestLossEventsAll : ForestLossDispatch(e)
  \/ \E i \in DOMAIN pending : ForestLossLoaded(i)
  \/ \E i \in DOMAIN pending, e \in Failures : ForestLossFailed(i, e)

SpecForest == Init /\ [][NextForest]_vars

\* the ForestLossBloc alone, with a service whose data set is revised now and then
NextCache ==
  \/ \E e \in ForestLossEventsAll : ForestLossDispatch(e)
  \/ \E i \in DOMAIN pending :
       \E response \in ForestLossResponses(pending[i].resolution) :
         ForestLossResolved(i, response)
  \/ \E i \in DOMAIN pending, e \in Failures : ForestLossFailed(i, e)

SpecCache == Init /\ [][NextCache]_vars

\* CounterBloc with listeners that call back into it
NextWithin ==
  \/ \E l \in ClientListeners : Subscribe("counter", l)
  \/ \E e \in CounterEvents : DispatchWithin(e)

SpecWithin == Init /\ [][NextWithin]_vars

\* components below Providers
NextProvider ==
  \/ \E d \in DisplayNames, b \in Instances, c \in Children : RenderProvider(d, b, c)
  \/ \E blocs \in Entries(MaxDepth), c \in Children : RenderMultiBlocProvider(blocs, c)
  \/ \E d \in DisplayNames : CallUseBloc(d)
  \/ Unmount

SpecProvider == Init /\ [][NextProvider]_vars

\* ------------------------------------------------------------- properties
CallsOn(cs, b) == SelectSeq(cs, LAMBDA c : c.bloc = b)

\* what a transition of b to state s owes the listeners ls registered before it
Owed(b, ls, s) == [i \in 1..Len(ls) |-> [bloc |-> b, listener |-> ls[i], state |-> s]]

\* C1: a transition calls each listener registered before it exactly once, in
\* registration order, with the post-transition state, within the step that commits it
C1_NotificationComplete ==
  [][\A k \in DOMAIN transitions' :
       LET b == transitions'[k].bloc
       IN /\ transitions'[k].state = state'[b]
          /\ CallsOn(calls', b) = Owed(b, listeners[b], state'[b])]_vars

C1_Witness ==
  /\ Len(transitions) = 1
  /\ Len(calls) = 2
  /\ calls[1].listener = TestListener(2)
  /\ calls[2].listener = TestListener(1)
  /\ calls[1].state = state["map"]
  /\ state["map"] # initialMapState

C4_Original ==
  [][\A i \in DOMAIN handles :
       Unsubscribe(i) =>
         /\ listeners'[handles[i].bloc] = Without(listeners[handles[i].bloc], handles[i].listener)
         /\ handles[i].invoked => listeners' = listeners]_vars

\* C4 amended: a handle removes its listener and nothing else; a later call changes
\* nothing as long as the listener was not passed to subscribe() again
C4_UnsubscribeIdempotent ==
  [][\A i \in DOMAIN handles :
       Unsubscribe(i) =>
         /\ listeners'[handles[i].bloc] = Without(listeners[handles[i].bloc], handles[i].listener)
         /\ \A b \in Blocs \ {handles[i].bloc} : listeners'[b] = listeners[b]
         /\ (/\ handles[i].invoked
             /\ \A j \in DOMAIN handles :
                  j > i => ~(/\ handles[j].bloc = handles[i].bloc
                             /\ handles[j].listener = handles[i].listener))
            => listeners' = listeners]_vars

C4_Witness ==
  /\ Len(handles) = 2
  /\ handles[1].invoked
  /\ ~handles[2].invoked
  /\ handles[1].listener # handles[2].listener
  /\ listeners["map"] = <<handles[2].listener>>
  /\ disposed["map"].done

\* what each event of MapBloc is to do to a state
MapTransition(s, e) ==
  CASE e.type = "viewStateChanged" -> [s EXCEPT !.viewState = e.viewState, !.isAnimating = FALSE]
    [] e.type = "setCenter" ->
         [s EXCEPT !.viewState.longitude = e.longitude, !.viewState.latitude = e.latitude]
    [] e.type = "setZoom" -> [s EXCEPT !.viewState.zoom = e.zoom]
    [] e.type = "flyTo" ->
         [s EXCEPT !.viewState.longitude = e.longitude, !.viewState.latitude = e.latitude,
                   !.viewState.zoom = IF "zoom" \in DOMAIN e THEN e.zoom ELSE @,
                   !.isAnimating = TRUE]
    [] e.type = "toggleLayer" ->
         [s EXCEPT !.enabledLayers = (@ \cup {e.layerId}) \ (@ \cap {e.layerId})]
    [] e.type = "reset" ->
         [viewState |-> [longitude |-> -12242, latitude |-> 3777, zoom |-> 11,
                         pitch |-> 0, bearing |-> 0],
          enabledLayers |-> {"scatterplot"}, isAnimating |-> FALSE]

\* what each event of CounterBloc is to do to a state
CounterTransition(s, e) ==
  CASE e.type = "increment" -> [count |-> s.count + 1]
    [] e.type = "decrement" -> [count |-> s.count - 1]
    [] e.type = "set" -> [count |-> e.value]

\* the fold of the transition function of b over the events of h dispatched to b
RECURSIVE Fold(_, _, _)
Fold(b, h, s) ==
  IF h = <<>> THEN s
  ELSE Fold(b, Tail(h),
            IF Head(h).bloc # b THEN s
            ELSE IF b = "map" THEN MapTransition(s, Head(h).event)
            ELSE CounterTransition(s, Head(h).event))

CounterExample ==
  <<[bloc |-> "counter", event |-> [type |-> "increment"]],
    [bloc |-> "counter", event |-> [type |-> "increment"]],
    [bloc |-> "counter", event |-> [type |-> "set", value |-> 5]],
    [bloc |-> "counter", event |-> [type |-> "decrement"]]>>

\* C2: the state of MapBloc and of CounterBloc is the fold of the transition function
\* over the events dispatched, and increment, increment, set(5), decrement gives 4
C2_StateIsFold ==
  /\ state["map"] = Fold("map", history, [viewState |-> [longitude |-> -12242,
                         latitude |-> 3777, zoom |-> 11, pitch |-> 0, bearing |-> 0],
                         enabledLayers |-> {"scatterplot"}, isAnimating |-> FALSE])
  /\ state["counter"] = Fold("counter", history, [count |-> 0])
  /\ history = CounterExample => state["counter"].count = 4

C2_Witness ==
  /\ history = CounterExample
  /\ state["counter"] = [count |-> 4]

\* C5: a dispose() runs the handle of every connection made so far that it has not run
\* before and empties the owned list: after it every handle has been run exactly once,
\* no connection listener is left on the map, and the other listeners are
C5_DisposeCancelsOwned ==
  [][AirQualityDispose =>
       /\ subscriptions'["airQuality"] = <<>>
       /\ \A n \in 1..connections :
            /\ unsubCalls'[n] = 1
            /\ ConnListener(n) \notin Range(listeners'["map"])
       /\ listeners'["map"] = SelectSeq(listeners["map"], LAMBDA l : l.kind = "test")]_vars

C5_Witness ==
  /\ connections = 2
  /\ unsubCalls[1] = 1
  /\ unsubCalls[2] = 1
  /\ subscriptions["airQuality"] = <<>>
  /\ Len(listeners["map"]) = 2

SameExcept(s, t, fields) ==
  /\ DOMAIN s = DOMAIN t
  /\ \A f \in DOMAIN s \ fields : s[f] = t[f]

\* C6: setCenter changes only longitude and latitude, setZoom only zoom, toggleLayer only
\* enabledLayers
C6_PartialUpdateFrame ==
  [][\A e \in MapEvents :
       MapAdd(e) =>
         LET s == state["map"]
             t == state'["map"]
         IN CASE e.type = "setCenter" ->
                   /\ SameExcept(s, t, {"viewState"})
                   /\ SameExcept(s.viewState, t.viewState, {"longitude", "latitude"})
                   /\ t.viewState.longitude = e.longitude
                   /\ t.viewState.latitude = e.latitude
              [] e.type = "setZoom" ->
                   /\ SameExcept(s, t, {"viewState"})
                   /\ SameExcept(s.viewState, t.viewState, {"zoom"})
                   /\ t.viewState.zoom = e.zoom
              [] e.type = "toggleLayer" ->
                   /\ SameExcept(s, t, {"enabledLayers"})
                   /\ t.enabledLayers \in {s.enabledLayers \cup {e.layerId},
                                           s.enabledLayers \ {e.layerId}}
                   /\ t.enabledLayers # s.enabledLayers
              [] OTHER -> TRUE]_vars

C6_Witness ==
  /\ state["map"].viewState.longitude # initialMapState.viewState.longitude
  /\ state["map"].viewState.zoom # initialMapState.viewState.zoom
  /\ state["map"].enabledLayers = {"heatmap"}
  /\ state["map"].isAnimating
  /\ state["map"].viewState.pitch = initialMapState.viewState.pitch

\* the fields each variant of each union state has
Fields(b, status) ==
  CASE status = "initial" -> {"status"}
    [] status = "loading" ->
         (IF b = "forestLoss" THEN {"status", "resolution"} ELSE {"status"})
    [] status = "loaded" ->
         (CASE b = "airQuality" -> {"status", "data", "lastUpdated", "source"}
            [] b = "sf311" -> {"status", "data", "count", "source"}
            [] b = "forestLoss" -> {"status", "resolution", "data", "bounds", "source",
                                    "yearFilter", "cache"})
    [] status = "error" ->
         (IF b = "forestLoss" THEN {"status", "message", "resolution"}
          ELSE {"status", "message"})

\* C7: the fields a union state has are exactly those of the variant its status names
C7_FieldsFollowTag ==
  \A b \in {"airQuality", "sf311", "forestLoss"} :
    /\ state[b].status \in {"initial", "loading", "loaded", "error"}
    /\ DOMAIN state[b] = Fields(b, state[b].status)

C7_Witness ==
  /\ state["airQuality"].status = "loaded"
  /\ state["sf311"].status = "error"
  /\ state["forestLoss"].status = "loading"
  /\ DOMAIN persistentCache # {}

\* the centre a listener call c was given
CenterOf(c) == Center(c.state.viewState.longitude, c.state.viewState.latitude)

\* the centres the connection listeners were called with
Upstream(cs) == {CenterOf(cs[k]) : k \in {j \in DOMAIN cs : cs[j].listener.kind = "conn"}}

WithinThreshold(p, base) ==
  /\ Abs(p.longitude - base.longitude) <= RELOAD_THRESHOLD
  /\ Abs(p.latitude - base.latitude) <= RELOAD_THRESHOLD

\* C8: a material upstream emission starts no fetch and leaves exactly one timer, with
\* the whole quiet period to run and the centre of that emission; a reload with a centre
\* starts only when that one timer has run out, and uses the timer's centre
C8_DebounceLastWins ==
  [][/\ \A p \in Upstream(calls') :
          ~WithinThreshold(p, lastLoadedCenter) =>
            /\ pending' = pending
            /\ timers' = {[id |-> debounceTimer', remaining |-> DEBOUNCE_MS, center |-> p]}
     /\ (Len(pending') > Len(pending) /\ ~pending'[Len(pending')].center.none) =>
          /\ timers' = {}
          /\ \E t \in timers :
               /\ timers = {t}
               /\ t.remaining = 0
               /\ t.center = pending'[Len(pending')].center
          /\ Len(pending') = Len(pending) + 1]_vars

C8_Witness ==
  /\ Len(pending) = 1
  /\ pending[1].center = Center(-12242, 3783)
  /\ state["map"].viewState.latitude = 3783
  /\ state["airQuality"].status = "loading"
  /\ lastLoadedCenter = Center(-12242, 3777)
  /\ timers = {}

\* C9: an upstream emission within the threshold of the baseline, exactly at it
\* included, schedules no timer and starts no fetch
C9_SubThresholdInert ==
  [][\A p \in Upstream(calls') :
       (~lastLoadedCenter.none /\ WithinThreshold(p, lastLoadedCenter)) =>
         /\ timers' \subseteq timers
         /\ pending' = pending]_vars

C9_Witness ==
  /\ Upstream(calls) = {Center(lastLoadedCenter.longitude + RELOAD_THRESHOLD,
                               lastLoadedCenter.latitude)}
  /\ ~lastLoadedCenter.none
  /\ state["airQuality"].status = "loaded"
  /\ timers = {}

\* C10 as claimed: a non-material emission leaves baseline, state and pending timer alone
C10_Original ==
  [][\A p \in Upstream(calls') :
       WithinThreshold(p, lastLoadedCenter) =>
         /\ lastLoadedCenter' = lastLoadedCenter
         /\ state'["airQuality"] = state["airQuality"]
         /\ timers' = timers]_vars

\* C10 amended: a non-material emission leaves baseline and state alone and starts no
\* fetch, and cancels the pending debounce timer
C10_NonMaterialCancels ==
  [][\A p \in Upstream(calls') :
       WithinThreshold(p, lastLoadedCenter) =>
         /\ lastLoadedCenter' = lastLoadedCenter
         /\ state'["airQuality"] = state["airQuality"]
         /\ pending' = pending
         /\ debounceTimer' = debounceTimer
         /\ timers' = {}]_vars

C10_Witness ==
  /\ \E p \in Upstream(calls) : WithinThreshold(p, lastLoadedCenter) /\ p # lastLoadedCenter
  /\ debounceTimer # 0
  /\ timers = {}
  /\ pending = <<>>
  /\ state["airQuality"].status = "initial"

\* the i-th fetch in flight is the one that settled in this step
Settled(i) ==
  /\ i \in DOMAIN pending
  /\ pending' = SubSeq(pending, 1, i - 1) \o SubSeq(pending, i + 1, Len(pending))

\* C11: the baseline changes only when connectToMap reads the upstream position and when
\* a reload fired with a centre resolves, which makes that centre the baseline; upstream
\* emissions, timers being scheduled or firing, and failed reloads leave it alone
C11_BaselineIsLastLoaded ==
  [][/\ lastLoadedCenter' # lastLoadedCenter =>
          \/ /\ connections' = connections + 1
             /\ lastLoadedCenter' = CenterOf([state |-> state["map"]])
          \/ \E i \in DOMAIN pending :
               /\ Settled(i)
               /\ state'["airQuality"].status = "loaded"
               /\ ~pending[i].center.none
               /\ lastLoadedCenter' = pending[i].center
     /\ \A i \in DOMAIN pending :
          (/\ Settled(i)
           /\ pending[i].bloc = "airQuality"
           /\ ~pending[i].center.none
           /\ state'["airQuality"].status = "loaded") =>
            lastLoadedCenter' = pending[i].center
     /\ (Upstream(calls') # {} \/ timers' # timers \/ Len(pending') > Len(pending)) =>
          lastLoadedCenter' = lastLoadedCenter]_vars

C11_Witness ==
  /\ state["airQuality"].status = "loaded"
  /\ lastLoadedCenter = Center(-12242, 3783)
  /\ state["map"].viewState.latitude = 3777
  /\ state["map"].viewState.longitude = -12237
  /\ Upstream(calls) # {}

\* the AirQualityBloc was disposed and has not been connected again since
Disconnected == disposed["airQuality"].done /\ subscriptions["airQuality"] = <<>>

\* C12: dispose() of the AirQualityBloc leaves no timer pending and no listener of its
\* own on the map; from then on a transition of the map calls no such listener,
\* schedules no timer and starts no fetch
C12_DisposeEndsReactions ==
  [][/\ (disposed' # disposed \/ unsubCalls' # unsubCalls) =>
          /\ disposed'["airQuality"].done
          /\ subscriptions'["airQuality"] = <<>>
          /\ timers' = {}
          /\ debounceTimer' = 0
          /\ \A l \in Range(listeners'["map"]) : l.kind # "conn"
     /\ (Disconnected /\ \E k \in DOMAIN transitions' : transitions'[k].bloc = "map") =>
          /\ Upstream(calls') = {}
          /\ timers' = timers
          /\ pending' = pending
          /\ state'["airQuality"] = state["airQuality"]]_vars

C12_Witness ==
  /\ Disconnected
  /\ connections = 1
  /\ \E k \in DOMAIN transitions : transitions[k].bloc = "map"
  /\ ~lastLoadedCenter.none
  /\ ~WithinThreshold(CenterOf([state |-> state["map"]]), lastLoadedCenter)
  /\ state["airQuality"].status = "initial"
  /\ timers = {}

\* the calls of client code made on container b, in order
EventsOf(b) ==
  LET h == SelectSeq(history, LAMBDA x : x.bloc = b)
  IN [i \in DOMAIN h |-> h[i].event]

\* the states the client listener of container b was called with, in order
SeenBy(b) ==
  LET o == SelectSeq(observed, LAMBDA c : c.bloc = b)
  IN [i \in DOMAIN o |-> o[i].state]

StatusesOf(ss) == [i \in DOMAIN ss |-> ss[i].status]

InFlight(b) == \E i \in DOMAIN pending : pending[i].bloc = b

\* a load event whose fetch the container starts from the initial state
FirstLoads(b) ==
  IF b = "forestLoss"
  THEN {e \in ForestLossEvents : e.type = "load" /\ e.resolution \in VALID_RESOLUTIONS}
  ELSE {[type |-> "load"]}

\* C13: after subscribe and load on a fresh async container, and nothing else, the
\* state is loading and the listener has seen [loading] for as long as the fetch is in
\* flight, so from the moment add() returned; once the fetch has resolved the listener
\* has seen [loading, loaded] and the last state it saw is the container's state
C13_LoadingThenLoaded ==
  \A b \in AsyncBlocs :
    (Len(EventsOf(b)) = 2 /\ EventsOf(b)[1].type = "subscribe"
     /\ EventsOf(b)[2] \in FirstLoads(b)) =>
      /\ InFlight(b) =>
           /\ state[b].status = "loading"
           /\ StatusesOf(SeenBy(b)) = <<"loading">>
      /\ (~InFlight(b) /\ state[b].status # "error") =>
           /\ state[b].status = "loaded"
           /\ StatusesOf(SeenBy(b)) = <<"loading", "loaded">>
           /\ SeenBy(b)[2] = state[b]

C13_Witness ==
  /\ EventsOf("sf311") = <<[type |-> "subscribe"], [type |-> "load"]>>
  /\ StatusesOf(SeenBy("sf311")) = <<"loading", "loaded">>
  /\ state["sf311"].status = "loaded"
  /\ Len(history) = 2

\* client code has just dispatched event e to container b
Dispatched(b, e) == history' = Append(history, [bloc |-> b, event |-> e])

\* C14: a load dispatched to AirQualityBloc or Sf311Bloc in a status other than
\* initial starts no fetch, leaves the state the value it was and calls no listener
C14_LoadOnlyFromInitial ==
  [][\A b \in {"airQuality", "sf311"} :
       (Dispatched(b, [type |-> "load"]) /\ state[b].status # "initial") =>
         /\ pending' = pending
         /\ state'[b] = state[b]
         /\ isInitialObject'[b] = isInitialObject[b]
         /\ transitions' = <<>>
         /\ calls' = <<>>]_vars

C14_Witness ==
  /\ EventsOf("airQuality") = <<[type |-> "subscribe"], [type |-> "load"], [type |-> "load"]>>
  /\ state["airQuality"].status = "loaded"
  /\ StatusesOf(SeenBy("airQuality")) = <<"loading", "loaded">>
  /\ pending = <<>>

\* C15: a refresh dispatched to AirQualityBloc or Sf311Bloc, whatever the status,
\* commits one transition, to loading, and starts exactly one fetch of that container
C15_RefreshAlwaysFetches ==
  [][\A b \in {"airQuality", "sf311"} :
       Dispatched(b, [type |-> "refresh"]) =>
         /\ state'[b] = [status |-> "loading"]
         /\ transitions' = <<[bloc |-> b, state |-> [status |-> "loading"]]>>
         /\ Len(pending') = Len(pending) + 1
         /\ pending'[Len(pending')].bloc = b
         /\ pending'[Len(pending')].center = NoCenter
         /\ \A i \in DOMAIN pending : pending'[i].bloc = pending[i].bloc]_vars

C15_Witness ==
  /\ EventsOf("sf311") = <<[type |-> "subscribe"], [type |-> "load"], [type |-> "refresh"]>>
  /\ StatusesOf(SeenBy("sf311")) = <<"loading", "loading">>
  /\ Len(pending) = 2
  /\ state["sf311"].status = "loading"

\* C16: after subscribe and load on a fresh async container, and nothing else, a fetch
\* that failed with an Error leaves the container in the error state carrying the
\* Error's message, and the listener has seen [loading, that error state]
C16_LoadingThenError ==
  \A b \in AsyncBlocs :
    (/\ Len(EventsOf(b)) = 2
     /\ EventsOf(b)[1].type = "subscribe"
     /\ EventsOf(b)[2] \in FirstLoads(b)
     /\ ~InFlight(b)
     /\ state[b].status \notin {"loaded"}) =>
      /\ state[b].status = "error"
      /\ StatusesOf(SeenBy(b)) = <<"loading", "error">>
      /\ SeenBy(b)[2] = state[b]
      /\ \E e \in Errors : state[b].message = e.message

C16_Witness ==
  /\ EventsOf("airQuality") = <<[type |-> "subscribe"], [type |-> "load"]>>
  /\ SeenBy("airQuality") = <<[status |-> "loading"], [status |-> "error", message |-> "boom"]>>
  /\ state["airQuality"].status = "error"
  /\ Len(history) = 2

\* C17: clearError in status error replaces the state with the initial state and tells
\* the listeners; in any other status it commits nothing, the state stays the object it
\* was and no listener is called; it never starts or ends a fetch
C17_ClearErrorOnlyFromError ==
  [][\A b \in AsyncBlocs :
       Dispatched(b, [type |-> "clearError"]) =>
         /\ pending' = pending
         /\ IF state[b].status = "error"
            THEN /\ state'[b] = InitialState(b)
                 /\ transitions' = <<[bloc |-> b, state |-> InitialState(b)]>>
                 /\ calls' = Owed(b, listeners[b], InitialState(b))
            ELSE /\ state'[b] = state[b]
                 /\ isInitialObject'[b] = isInitialObject[b]
                 /\ transitions' = <<>>
                 /\ calls' = <<>>]_vars

C17_Witness ==
  /\ EventsOf("forestLoss") =
       <<[type |-> "subscribe"], [type |-> "load", resolution |-> 5], [type |-> "clearError"]>>
  /\ StatusesOf(SeenBy("forestLoss")) = <<"loading", "error", "initial">>
  /\ state["forestLoss"] = initialForestLossState
  /\ persistentCache = <<>>

LoadsOf == {e \in ForestLossEventsAll : e.type = "load"}

\* C18: a load of a resolution that is in the cache, whatever the state, makes the state
\* loaded with that resolution and the cached cells within the add() call, and starts
\* no fetch; the cache holds exactly the resolutions fetched successfully, for good
C18_CacheHitIsSynchronous ==
  [][/\ \A e \in LoadsOf :
          (Dispatched("forestLoss", e) /\ e.resolution \in DOMAIN persistentCache) =>
            /\ state'["forestLoss"].status = "loaded"
            /\ state'["forestLoss"].resolution = e.resolution
            /\ state'["forestLoss"].data = persistentCache[e.resolution]
            /\ pending' = pending
            /\ persistentCache' = persistentCache
     /\ \A i \in DOMAIN pending :
          (Settled(i) /\ state'["forestLoss"].status = "loaded") =>
            pending[i].resolution \in DOMAIN persistentCache'
     /\ \A r \in DOMAIN persistentCache :
          r \in DOMAIN persistentCache' /\ persistentCache'[r] = persistentCache[r]]_vars

C18_Witness ==
  /\ EventsOf("forestLoss") = <<[type |-> "load", resolution |-> 5],
                                [type |-> "load", resolution |-> 6],
                                [type |-> "load", resolution |-> 5]>>
  /\ DOMAIN persistentCache = {5}
  /\ Len(pending) = 1
  /\ pending[1].resolution = 6
  /\ state["forestLoss"].status = "loaded"
  /\ state["forestLoss"].resolution = 5

\* C19: a load of a resolution outside VALID_RESOLUTIONS puts the state in error within
\* the add() call, with the resolution and a message that is that resolution's own; it
\* starts no fetch and leaves the cache alone, and no fetch of such a resolution is
\* ever in flight
C19_InvalidResolutionRejected ==
  [][/\ \A e \in LoadsOf :
          (Dispatched("forestLoss", e) /\ e.resolution \notin VALID_RESOLUTIONS) =>
            /\ state'["forestLoss"] = [status |-> "error",
                                         message |-> InvalidResolutionMessage(e.resolution),
                                         resolution |-> e.resolution]
            /\ \A f \in LoadsOf :
                 f.resolution # e.resolution =>
                   state'["forestLoss"].message # InvalidResolutionMessage(f.resolution)
            /\ pending' = pending
            /\ persistentCache' = persistentCache
     /\ \A i \in DOMAIN pending' : pending'[i].resolution \in VALID_RESOLUTIONS]_vars

C19_Witness ==
  /\ EventsOf("forestLoss") = <<[type |-> "load", resolution |-> 5],
                                [type |-> "load", resolution |-> 8]>>
  /\ state["forestLoss"].status = "error"
  /\ state["forestLoss"].resolution = 8
  /\ DOMAIN persistentCache = {5}
  /\ pending = <<>>

\* C20 as claimed: a load of a resolution of which a fetch is in flight starts no
\* fetch and leaves the state as it was
C20_Original ==
  [][\A e \in LoadsOf :
       (/\ Dispatched("forestLoss", e)
        /\ \E i \in DOMAIN pending : pending[i].resolution = e.resolution) =>
         /\ pending' = pending
         /\ state'["forestLoss"] = state["forestLoss"]]_vars

\* the Providers of displayName around the component, as positions of sc
Around(displayName, sc) == {i \in DOMAIN sc : sc[i].Provider = displayName}

\* a step in which the component called the hook of displayName
Called(displayName) == retrieved' # retrieved /\ retrieved'.hook = displayName

\* C21: a component that calls the hook of a role outside every Provider of that role
\* gets an error whose message names the role (use<Role> must be used within a
\* <Role>Provider); the hook never hands out the undefined default of the context.
C21_UseBlocOutsideThrows ==
  [][\A d \in DisplayNames :
       Called(d) =>
         /\ retrieved'.bloc # undefined
         /\ Around(d, scope) = {} =>
              /\ retrieved'.threw
              /\ retrieved'.message = <<"use", d, " must be used within a ", d, "Provider">>
              /\ retrieved'.bloc \notin Instances]_vars

\* the hook of MapBloc has thrown below a Provider of AirQualityBloc only
C21_Witness ==
  /\ retrieved.hook = "MapBloc"
  /\ retrieved.threw
  /\ Around("MapBloc", scope) = {}
  /\ Around("AirQualityBloc", scope) # {}

RECURSIVE Nested(_, _)
\* the Providers of blocs written out by hand around children, the first one outermost
Nested(blocs, children) ==
  IF blocs = <<>> THEN children
  ELSE Element(Head(blocs).Provider, Head(blocs).bloc, Nested(Tail(blocs), children))

\* C22: a MultiBlocProvider given the list [A, B, C] comes to the same element, and so to
\* the same retrievals below it, as the Providers nested by hand A around B around C,
\* the first entry outermost; given the empty list it returns its children unchanged.
C22_MultiIsNesting ==
  [][rendered' # rendered /\ rendered'.by = "MultiBlocProvider" =>
       /\ rendered'.element = Nested(rendered'.blocs, rendered'.children)
       /\ scope' = Render(Nested(rendered'.blocs, rendered'.children), scope)
       /\ rendered'.blocs = <<>> =>
            rendered'.element = rendered'.children
       /\ rendered'.blocs # <<>> =>
            /\ rendered'.element[1] = rendered'.blocs[1].Provider
            /\ rendered'.element[2] = rendered'.blocs[1].bloc
            /\ scope'[Len(scope) + 1] = rendered'.blocs[1]]_vars

\* a list of two Providers of different roles was rendered around one more Provider
C22_Witness ==
  /\ rendered.by = "MultiBlocProvider"
  /\ rendered.blocs = <<[Provider |-> "MapBloc", bloc |-> "bloc1"],
                        [Provider |-> "AirQualityBloc", bloc |-> "bloc2"]>>
  /\ rendered.children # NoChildren
  /\ Len(scope) = 3

\* the Providers of displayName around the component, outermost first
ProvidersOf(displayName, sc) == SelectSeq(sc, LAMBDA e : e.Provider = displayName)

\* C23: below several Providers of one role, nested by hand or listed in one
\* MultiBlocProvider, the hook of that role hands out the instance of the innermost of
\* them; the Providers of other roles around the component make no difference to it.
C23_InnermostWins ==
  [][\A d \in DisplayNames :
       Called(d) /\ Around(d, scope) # {} =>
         /\ ~retrieved'.threw
         /\ retrieved'.bloc = ProvidersOf(d, scope)[Len(ProvidersOf(d, scope))].bloc
         /\ \E i \in Around(d, scope) :
              /\ \A j \in (i + 1)..Len(scope) : scope[j].Provider # d
              /\ retrieved'.bloc = scope[i].bloc]_vars

\* one MultiBlocProvider listed two Providers of MapBloc with different instances and a
\* Provider of AirQualityBloc inside them, and the hook of MapBloc was called below
C23_Witness ==
  /\ rendered.by = "MultiBlocProvider"
  /\ rendered.blocs = <<[Provider |-> "MapBloc", bloc |-> "bloc1"],
                        [Provider |-> "MapBloc", bloc |-> "bloc2"],
                        [Provider |-> "AirQualityBloc", bloc |-> "bloc1"]>>
  /\ scope = rendered.blocs
  /\ retrieved.hook = "MapBloc"
  /\ retrieved.bloc = "bloc2"

\* the year filter an event asks for, 0 for null
YearFilterOf(e) ==
  IF e.type = "setYearFilter" THEN [minYear |-> e.minYear, maxYear |-> e.maxYear]
  ELSE [minYear |-> 0, maxYear |-> 0]

\* C24: a setYearFilter or clearYearFilter dispatched to ForestLossBloc in the loaded
\* status changes the yearFilter field only (to the bounds asked for, or to no bounds)
\* and starts no fetch; in every other status it leaves the state the value it was and
\* calls no listener.
C24_YearFilterFrame ==
  [][\A e \in {f \in ForestLossEvents : f.type \in {"setYearFilter", "clearYearFilter"}} :
       Dispatched("forestLoss", e) =>
         /\ pending' = pending
         /\ persistentCache' = persistentCache
         /\ IF state["forestLoss"].status = "loaded"
            THEN /\ SameExcept(state["forestLoss"], state'["forestLoss"], {"yearFilter"})
                 /\ state'["forestLoss"].yearFilter = YearFilterOf(e)
            ELSE /\ state'["forestLoss"] = state["forestLoss"]
                 /\ isInitialObject'["forestLoss"] = isInitialObject["forestLoss"]
                 /\ transitions' = <<>>
                 /\ calls' = <<>>]_vars

\* a loaded state took a year filter, then another, and was then cleared of it
C24_Witness ==
  /\ EventsOf("forestLoss") =
       <<[type |-> "load", resolution |-> 5],
         [type |-> "setYearFilter", minYear |-> 15, maxYear |-> 17],
         [type |-> "setYearFilter", minYear |-> 18, maxYear |-> 0],
         [type |-> "clearYearFilter"]>>
  /\ state["forestLoss"].status = "loaded"
  /\ state["forestLoss"].data = ForestLossResponse(5).cells
  /\ state["forestLoss"].yearFilter = [minYear |-> 0, maxYear |-> 0]

\* C25: whatever events MapBloc was given, once the last of them is a reset its state is
\* the initial map state, value for value; and no sequence of events changes what the
\* shared initialMapState constant holds.
C25_ResetRestoresInitial ==
  /\ initialLayers = initialMapState.enabledLayers
  /\ LET es == EventsOf("map")
     IN (es # <<>> /\ es[Len(es)].type = "reset") =>
          /\ state["map"] = initialMapState
          /\ layersShared

\* the layer of the initial state was toggled off, the view moved, and the container reset
C25_Witness ==
  LET es == EventsOf("map")
  IN /\ Len(es) = 3
     /\ es[1] = [type |-> "toggleLayer", layerId |-> "scatterplot"]
     /\ es[2].type \in {"setCenter", "flyTo", "viewStateChanged"}
     /\ es[3].type = "reset"
     /\ state["map"] = initialMapState
     /\ ~isInitialObject["map"]

\* the events dispatched to MapBloc so far, as records of the history
MapHistory == SelectSeq(history, LAMBDA x : x.bloc = "map")

\* the last two events MapBloc was given are toggleLayer events of one layer
ToggledTwice ==
  /\ Len(MapHistory) >= 2
  /\ MapHistory[Len(MapHistory)].event.type = "toggleLayer"
  /\ MapHistory[Len(MapHistory)].event = MapHistory[Len(MapHistory) - 1].event

\* C26: toggleLayer(id) switches the membership of id in enabledLayers and of no other
\* layer, and changes no other field; two toggleLayer(id) in a row leave the state what
\* it was before them.
C26_ToggleLayerFlips ==
  [][/\ \A id \in Layers :
          Dispatched("map", [type |-> "toggleLayer", layerId |-> id]) =>
            LET s == state["map"]
                t == state'["map"]
            IN /\ SameExcept(s, t, {"enabledLayers"})
               /\ (id \in t.enabledLayers) = (id \notin s.enabledLayers)
               /\ t.enabledLayers \ {id} = s.enabledLayers \ {id}
     /\ ToggledTwice' =>
          state'["map"] = Fold("map", SubSeq(MapHistory', 1, Len(MapHistory') - 2),
                               initialMapState)]_vars

\* heatmap, which the initial state does not have, was switched on and off again
C26_Witness ==
  /\ ToggledTwice
  /\ Len(MapHistory) = 3
  /\ MapHistory[1].event.type = "setZoom"
  /\ MapHistory[3].event.layerId = "heatmap"
  /\ state["map"].enabledLayers = {"scatterplot"}
  /\ state["map"].viewState.zoom = 8

\* the flyTo, viewStateChanged and reset events MapBloc was given so far
AnimationEvents ==
  SelectSeq(MapHistory, LAMBDA x : x.event.type \in {"flyTo", "viewStateChanged", "reset"})

\* C27: isAnimating is true exactly when, of the flyTo, viewStateChanged and reset
\* events MapBloc was given, the most recent is a flyTo; setCenter, setZoom and
\* toggleLayer leave it as it is, and it is false before any of the three.
C27_AnimatingAfterFlyTo ==
  state["map"].isAnimating =
    (/\ AnimationEvents # <<>>
     /\ AnimationEvents[Len(AnimationEvents)].event.type = "flyTo")

\* a flyTo, then a setZoom that leaves the flag up, then a viewStateChanged that takes it
\* down, then a toggleLayer that leaves it down
C27_Witness ==
  /\ Len(MapHistory) = 4
  /\ MapHistory[1].event.type = "flyTo"
  /\ MapHistory[2].event.type = "setZoom"
  /\ MapHistory[3].event.type = "viewStateChanged"
  /\ MapHistory[4].event.type = "toggleLayer"
  /\ ~state["map"].isAnimating

\* C28: dispose() leaves the state of the container what it was and calls no listener;
\* on a disposed container the state getter goes on answering with the value committed
\* last, the one it had at dispose() or the one an add() after dispose() committed.
C28_DisposeKeepsState ==
  [][/\ (disposed'["map"] # disposed["map"] \/ Dispose("map")) =>
          /\ state' = state
          /\ isInitialObject' = isInitialObject
          /\ transitions' = <<>>
          /\ calls' = <<>>
     /\ disposed'["map"].done =>
          getState("map")' = IF transitions' = <<>> THEN getState("map")
                             ELSE transitions'[Len(transitions')].state]_vars

\* MapBloc was zoomed, then disposed
C28_Witness ==
  /\ disposed["map"].done
  /\ transitions = <<>>
  /\ getState("map").viewState.zoom = 8
  /\ getState("map").isAnimating
  /\ listeners["map"] # <<>>

\* the positions of calls at which listener l was called in the given round
CallsIn(cs, l, round) == {i \in DOMAIN cs : cs[i].listener = l /\ cs[i].round = round}

\* the positions of calls at which listener l was handed the state s
CallsWith(cs, l, s) == {i \in DOMAIN cs : cs[i].listener = l /\ cs[i].state = s}

\* C29: when a listener, while it is notified of a transition T1, makes the container
\* commit a second transition T2, every listener is notified of T1, with the state of
\* T1, before any listener is notified of T2, and every listener is handed the state of
\* T2 once, no more.
C29_Original ==
  [][(history' # history /\ Len(transitions') = 2) =>
       /\ \A i, j \in DOMAIN calls' :
            (calls'[i].round = 1 /\ calls'[j].round = 2) => i < j
       /\ \A l \in Range(listeners["counter"]) :
            /\ Cardinality(CallsIn(calls', l, 1)
                           \cap CallsWith(calls', l, transitions'[1].state)) = 1
            /\ Cardinality(CallsWith(calls', l, transitions'[2].state)) = 1]_vars

\* a step in which a listener subscribed LateListener
Late ==
  /\ LateListener \notin Range(listeners["counter"])
  /\ LateListener \in Range(listeners'["counter"])

\* the round in which the first call of AdderListener was made
AddedIn(cs) ==
  cs[CHOOSE i \in DOMAIN cs :
       /\ cs[i].listener = AdderListener
       /\ \A j \in DOMAIN cs : cs[j].listener = AdderListener => i <= j].round

\* C30 as stated: a listener subscribed from inside another listener while a round of
\* notifications is in progress is not called in that round.
C30_Original ==
  [][Late => CallsIn(calls', LateListener, AddedIn(calls')) = {}]_vars

\* C30: a listener subscribed from inside another listener while a round of
\* notifications is in progress is called in that same round, once, after every
\* listener registered before it has been called in that round, and with the state the
\* store has by then.
C30_LateListenerJoinsRound ==
  [][Late =>
       LET cs == calls'
           round == AddedIn(cs)
       IN /\ Cardinality(CallsIn(cs, LateListener, round)) = 1
          /\ \A j \in CallsIn(cs, LateListener, round) :
               /\ \A l \in Range(listeners["counter"]) :
                    \E i \in CallsIn(cs, l, round) : i < j
               /\ \A i \in DOMAIN cs : cs[i].round = round => i <= j
               /\ cs[j].state = state'["counter"]]_vars

\* the first event dispatched made AdderListener subscribe LateListener, which was then
\* called with the other two
C30_Witness ==
  /\ Len(history) = 1
  /\ listeners["counter"] = <<TestListener(1), AdderListener, LateListener>>
  /\ Len(calls) = 3
  /\ calls[3].listener = LateListener
  /\ calls[3].state = state["counter"]

\* the handles client code was given for listener l of container b and has not invoked
LiveHandles(b, l) ==
  {i \in DOMAIN handles : handles[i].bloc = b /\ handles[i].listener = l /\ ~handles[i].invoked}

\* the calls of cs made to listener l
CallsTo(cs, l) == {k \in DOMAIN cs : cs[k].listener = l}

\* C31 as stated: a listener is registered once per subscribe() call, so a transition
\* calls it once for every handle of it that was not invoked.
C31_Original ==
  [][\A l \in TestListeners :
       transitions' # <<>> =>
         Cardinality(CallsTo(calls', l)) = Cardinality(LiveHandles("map", l))]_vars

\* C31: the listeners are a set. Passing a listener that is registered to subscribe()
\* again registers nothing; a transition calls it once however often it was subscribed;
\* and each of the handles returned for it removes that one registration.
C31_DuplicatesCollapse ==
  [][\A l \in TestListeners :
       /\ (Len(handles') > Len(handles) /\ handles'[Len(handles')].listener = l
           /\ l \in Range(listeners["map"])) => listeners' = listeners
       /\ transitions' # <<>> =>
            Cardinality(CallsTo(calls', l)) = IF l \in Range(listeners["map"]) THEN 1 ELSE 0
       /\ \A i \in LiveHandles("map", l) :
            Unsubscribe(i) => l \notin Range(listeners'["map"])]_vars

\* one listener was subscribed twice, neither handle was invoked, and a transition
\* called it
C31_Witness ==
  /\ Len(handles) = 2
  /\ handles[1].listener = handles[2].listener
  /\ Cardinality(LiveHandles("map", handles[1].listener)) = 2
  /\ transitions # <<>>
  /\ Len(calls) = 1

\* C32: as long as no load of the AirQualityBloc has completed, no reload comes of a
\* viewport change: every fetch that starts, and every loading state with it, is that of
\* a load or refresh event, not that of a debounce timer.
C32_Original ==
  [][(~loadedOnce["airQuality"] /\ Len(pending') > Len(pending)) =>
       pending'[Len(pending')].center.none]_vars

\* the latest load container b started has settled, and its outcome is the state
LatestSettled(b) ==
  /\ ~\E j \in DOMAIN pending : pending[j].bloc = b /\ pending[j].latest
  /\ state[b].status \in {"loaded", "error"}

\* C33: when loads of AirQualityBloc or Sf311Bloc overlap, the state after all fetches
\* have settled is the outcome of the load started last: a fetch of an earlier load that
\* settles after the latest one has settled leaves the state what that one made it.
C33_Original ==
  [][\A i \in DOMAIN pending :
       (/\ Settled(i)
        /\ pending[i].bloc \in {"airQuality", "sf311"}
        /\ ~pending[i].latest
        /\ LatestSettled(pending[i].bloc)) =>
         state'[pending[i].bloc] = state[pending[i].bloc]]_vars

\* the events dispatched so far are loads of valid resolutions, at least one
OnlyValidLoads ==
  /\ history # <<>>
  /\ \A k \in DOMAIN history :
       /\ history[k].event.type = "load"
       /\ history[k].event.resolution \in VALID_RESOLUTIONS

\* C34: after loads of valid resolutions only, once no fetch is in flight the state of
\* ForestLossBloc carries the resolution of the load dispatched last; a fetch that
\* settles late does not replace the result of a later load.
C34_Original ==
  (OnlyValidLoads /\ pending = <<>>) =>
    state["forestLoss"].resolution = history[Len(history)].event.resolution

\* C35: an async container whose status is loading has a fetch in flight; so, every
\* fetch settling in the end, a loading state is always followed by a loaded or an error
\* state.
C35_LoadingEnds ==
  /\ [](\A b \in AsyncBlocs : state[b].status = "loading" => InFlight(b))
  /\ \A b \in AsyncBlocs :
       (state[b].status = "loading") ~> (state[b].status \in {"loaded", "error"})

\* two loads of the ForestLossBloc overlap and the state is that of the later one
C35_Witness ==
  /\ state["forestLoss"] = [status |-> "loading", resolution |-> 6]
  /\ Len(pending) = 2
  /\ pending[1].resolution = 5
  /\ ~pending[1].latest
  /\ pending[2].resolution = 6

\* C36: an AirQualityBloc never has more than one debounce timer pending, however
\* often connectToMap was called and whether the viewportChanged events come from the
\* map or are dispatched directly; the pending timer is the one the debounceTimer field
\* holds, and when it fires one reload starts and no timer is left.
C36_OneLiveTimer ==
  [][/\ Cardinality(timers') <= 1
     /\ \A t \in timers' : t.id = debounceTimer'
     /\ Len(pending') > Len(pending) =>
          /\ Len(pending') = Len(pending) + 1
          /\ timers' = {}]_vars

\* the map moved while the AirQualityBloc was connected to it twice, and one timer is
\* pending
C36_Witness ==
  /\ connections = 2
  /\ Len(subscriptions["airQuality"]) = 2
  /\ Cardinality(Upstream(calls)) = 1
  /\ Len(SelectSeq(calls, LAMBDA c : c.listener.kind = "conn")) = 2
  /\ Cardinality(timers) = 1

C38_CacheInvariant ==
  /\ [](/\ DOMAIN persistentCache \subseteq VALID_RESOLUTIONS
        /\ state["forestLoss"].status = "loaded" =>
             /\ state["forestLoss"].resolution \in DOMAIN persistentCache
             /\ persistentCache[state["forestLoss"].resolution] = state["forestLoss"].data)
  /\ [][/\ DOMAIN persistentCache \subseteq DOMAIN persistentCache'
        /\ persistentCache' # persistentCache =>
             \E i \in DOMAIN pending :
               /\ Settled(i)
               /\ state'["forestLoss"].status = "loaded"
               /\ state'["forestLoss"].resolution = pending[i].resolution
               /\ \A r \in DOMAIN persistentCache' :
                    persistentCache'[r] = IF r = pending[i].resolution
                                          THEN state'["forestLoss"].data
                                          ELSE persistentCache[r]]_vars

\* two resolutions are cached, one of them in its revised form; after the load of an
\* invalid resolution had ended in error, a load was answered from the cache
C38_Witness ==
  /\ DOMAIN persistentCache = {5, 6}
  /\ persistentCache[5] = <<"revised cells", 5>>
  /\ state["forestLoss"].status = "loaded"
  /\ state["forestLoss"].resolution = 5
  /\ pending = <<>>
  /\ Len(history) = MaxLoads
  /\ history[MaxLoads].event = [type |-> "load", resolution |-> 5]
  /\ history[MaxLoads - 1].event = [type |-> "load", resolution |-> 8]

\* what a holder of the state value v reads from it while the Map this.persistentCache
\* has the entries of cache: the cache field of a loaded state of the ForestLossBloc is
\* that Map itself, every other field is a value of its own
Contents(v, cache) ==
  IF "cache" \in DOMAIN v THEN [v EXCEPT !.cache = cache] ELSE v

\* C39 as claimed: no step changes what a state value that was delivered to a subscriber
\* holds; in particular the cache field of a loaded state delivered earlier gains no
\* entries
C39_Original ==
  [][\A k \in DOMAIN observed :
       Contents(observed[k].state, persistentCache') =
         Contents(observed[k].state, persistentCache)]_vars

====
